---- MODULE Spec2Model ----
(***************************************************************************)
(* Model of the pycom-wrap lexer (src/src/lsp/lexer/lex.rs).               *)
(*                                                                         *)
(* A character is a short string.  "U2" stands for a two-byte XID_Start    *)
(* letter (such as U+00E9), "U4" for a four-byte emoji-presentation        *)
(* codepoint and "BOM" for U+FEFF.  Texts are sequences of characters.     *)
(* The state is the Lexer struct plus the caller's record of what every    *)
(* call of Iterator::next returned.  The variable call records the last    *)
(* call of one of the free-standing functions (to_char_index of            *)
(* comment_wrapper.rs, TextRange::cover of text_range.rs, encode_message   *)
(* of rpc.rs, split_fn of rpc.rs).  The variable scanner is the Scanner of *)
(* scanner.rs with the byte stream behind its reader, and handler is the   *)
(* RequestHandler of request_handling.rs with its last message and answer. *)
(***************************************************************************)
EXTENDS Integers, Sequences, FiniteSets, TLC

VARIABLES source, rd, window, cursor, at_begin_of_line, nesting,
          indent_stack, queue, out, probe, call, scanner, handler

vars == <<source, rd, window, cursor, at_begin_of_line, nesting,
          indent_stack, queue, out, probe, call, scanner, handler>>

\* ------------------------------------------------------------------ bounds
\* Longest source of the free-form specification.
MaxLen == 4

\* Lines, tabs and spaces of the sources of the indentation specification.
MaxLines == 2

MaxTabs == 1

MaxSpaces == 1

\* Tokens per source of the plain-token specification.
MaxToks == 3

\* Calls of next() the caller makes on one Lexer.
MaxPulls == 14

\* Bytes before the label of a frame, and bytes of a frame's body.
MaxLead == 2

MaxBody == 2

\* Frames in one byte stream, and bytes of a partial frame after them.
MaxFrames == 2

\* Messages given to one RequestHandler.
MaxRequests == 3

\* Largest offset of the ranges given to TextRange::cover.
MaxOffset == 3

\* Digits (and underscores) after the prefix of a radix-prefixed literal.
MaxDigits == 3

\* Leading blanks of a blank line.
MaxBlank == 2

\* ------------------------------------------------------------- characters
None == "None"

Letters == {"a", "b", "e", "f", "j", "o", "r", "u", "x", "E", "J", "X", "B", "O"}

Digits == {"0", "1", "2", "3", "4", "5", "6", "7", "8", "9"}

Utf8Len(c) ==
    CASE c = "U2" -> 2
      [] c = "BOM" -> 3
      [] c = "U4" -> 4
      [] OTHER -> 1

is_identifier_or_keywords_start(c) == c \in Letters \cup {"_", "U2"}

is_identifier_or_keyword_continuation(c) == c \in Letters \cup Digits \cup {"_", "U2"}

is_emoji_presentation(c) == c = "U4"

is_digit_of_radix(c, radix) ==
    CASE radix = 2 -> c \in {"0", "1"}
      [] radix = 8 -> c \in {"0", "1", "2", "3", "4", "5", "6", "7", "8"}
      [] radix = 10 -> c \in Digits
      [] radix = 16 -> c \in Digits \cup {"a", "b", "e", "f", "E", "B"}

\* ---------------------------------------------------------------- results
NoErr == [type |-> "ok", kind |-> "ok", text |-> <<>>, value |-> 0, start |-> 0, end |-> 0]

NoMatch == [type |-> "nomatch", kind |-> "nomatch", text |-> <<>>, value |-> 0, start |-> 0, end |-> 0]

Hang(loc) == [type |-> "hang", kind |-> "hang", text |-> <<>>, value |-> 0, start |-> loc, end |-> loc]

Tok(kind, text, s, e) == [type |-> "tok", kind |-> kind, text |-> text, value |-> 0, start |-> s, end |-> e]

Err(kind, loc) == [type |-> "err", kind |-> kind, text |-> <<>>, value |-> 0, start |-> loc, end |-> loc]

Panic == [type |-> "panic", kind |-> "panic", text |-> <<>>, value |-> 0, start |-> 0, end |-> 0]

EndOfStream == [type |-> "none", kind |-> "None", text |-> <<>>, value |-> 0, start |-> 0, end |-> 0]

\* What the last pull saw: the character, nesting, cursor and queue length at
\* its last entry into populate_results_queue, and the operands and result
\* of its last compare_strict call.
NoProbe == [c |-> "-", nesting |-> 0, cursor |-> 0, qlen |-> 0,
            a |-> [tabs |-> 0, spaces |-> 0], b |-> [tabs |-> 0, spaces |-> 0], ord |-> "-"]

\* No call of a free-standing function yet.
NoRange == [type |-> "none", start |-> 0, end |-> 0]

NoCall == [fn |-> "-", text |-> <<>>, offset |-> 0, idx |-> 0,
           a |-> NoRange, b |-> NoRange, range |-> NoRange, bytes |-> <<>>]

\* No message handled yet, and no answer given.
NoMessage == [type |-> "-", id |-> 0, method |-> "-", params |-> "-"]

NoAction == [type |-> "-", id |-> 0, result |-> "-", error |-> "-", ran |-> "-"]

\* RequestHandler::new, with the count of the messages handled.
RequestHandler_new ==
    [is_active |-> TRUE, handled |-> 0, message |-> NoMessage, action |-> NoAction]

\* Scanner::from_reader over a reader that will supply the bytes of stream:
\* input is what the reader still holds, delivered what next() has returned.
Scanner_from_reader(stream) ==
    [stream |-> stream, input |-> stream, payload_buffer |-> <<>>, start_hint |-> 0,
     pc |-> "idle", delivered |-> <<>>, at_end |-> FALSE]

\* TextRange::new asserts start <= end.
TextRange_new(kind, text, s, e) == IF s <= e THEN Tok(kind, text, s, e) ELSE Panic

\* ------------------------------------------------------ indentation levels
Level(t, s) == [tabs |-> t, spaces |-> s]

\* Mutant: more tabs decide the ordering without looking at the spaces.
compare_strict_mut(a, b) ==
    IF a.tabs < b.tabs
    THEN (IF a.spaces <= b.spaces THEN "Less" ELSE "TabError")
    ELSE IF a.tabs > b.tabs
         THEN "Greater"
         ELSE IF a.spaces < b.spaces THEN "Less"
              ELSE IF a.spaces > b.spaces THEN "Greater" ELSE "Equal"

compare_strict(a, b) ==
    IF a.tabs < b.tabs
    THEN (IF a.spaces <= b.spaces THEN "Less" ELSE "TabError")
    ELSE IF a.tabs > b.tabs
         THEN (IF a.spaces >= b.spaces THEN "Greater" ELSE "TabError")
         ELSE IF a.spaces < b.spaces THEN "Less"
              ELSE IF a.spaces > b.spaces THEN "Greater" ELSE "Equal"

\* Mutant: the emptiness test of the underlying vector.
Indentations_is_empty_mut(stack) == Len(stack) = 0

Indentations_is_empty(stack) == Len(stack) = 1

Indentations_pop(stack) ==
    IF Indentations_is_empty(stack) THEN stack ELSE SubSeq(stack, 1, Len(stack) - 1)

Indentations_current(stack) == stack[Len(stack)]

\* Mutant: the cursor counts characters, not their UTF-8 lengths.
CharReader_next_mut(L) ==
    LET nxt == IF L.rd < Len(L.src) THEN L.src[L.rd + 1] ELSE None
    IN [L EXCEPT !.window = <<L.window[2], L.window[3], nxt>>,
                 !.rd = IF nxt # None THEN L.rd + 1 ELSE L.rd,
                 !.cursor = IF nxt # None THEN L.cursor + 1 ELSE L.cursor]

\* ------------------------------------------------------------ char reader
\* CharReader::next: shift the window, pull one character, advance the cursor.
CharReader_next(L) ==
    LET nxt == IF L.rd < Len(L.src) THEN L.src[L.rd + 1] ELSE None
    IN [L EXCEPT !.window = <<L.window[2], L.window[3], nxt>>,
                 !.rd = IF nxt # None THEN L.rd + 1 ELSE L.rd,
                 !.cursor = IF nxt # None THEN L.cursor + Utf8Len(nxt) ELSE L.cursor]

\* Lexer::next_char: one advance, and a second one when the window now shows \r\n.
skip_line_feed(A) ==
    IF A.window[1] = "\r" /\ A.window[2] = "\n" THEN CharReader_next(A) ELSE A

next_char(L) == skip_line_feed(CharReader_next(L))

RECURSIVE jump_forward_n_chars(_, _)
jump_forward_n_chars(L, n) ==
    IF n = 0 THEN L ELSE jump_forward_n_chars(next_char(L), n - 1)

\* ------------------------------------------------------------ identifiers
\* Token::try_get_keyword, restricted to the keywords the alphabet can spell.
try_get_keyword(name) ==
    CASE name = <<"o", "r">> -> "Or"
      [] name = <<"f", "o", "r">> -> "For"
      [] OTHER -> None

\* The while-let loop of lex_identifier_or_keyword: it runs only while BOTH
\* window[0] and window[1] are present.
RECURSIVE identifier_loop(_, _)
identifier_loop(L, name) ==
    IF L.window[1] # None /\ L.window[2] # None
    THEN IF ~is_identifier_or_keyword_continuation(L.window[2])
         THEN [L |-> next_char(L), name |-> Append(name, L.window[1])]
         ELSE identifier_loop(next_char(L), Append(name, L.window[1]))
    ELSE [L |-> L, name |-> name]

\* The statements of lex_identifier_or_keyword after its loop.
identifier_token(R, start_pos, kw) ==
    [L |-> R.L,
     res |-> TextRange_new(IF kw # None THEN kw ELSE "Name", R.name, start_pos, R.L.cursor)]

identifier_keyword(R, start_pos) == identifier_token(R, start_pos, try_get_keyword(R.name))

lex_identifier_or_keyword(L) == identifier_keyword(identifier_loop(L, <<>>), L.cursor)

\* --------------------------------------------------------------- comments
RECURSIVE comment_loop(_, _)
comment_loop(L, value) ==
    IF L.window[1] \in {"\n", "\r", None}
    THEN [L |-> L, value |-> value]
    ELSE comment_loop(jump_forward_n_chars(L, 1), Append(value, L.window[1]))

comment_token(R, start_pos) ==
    [L |-> R.L, res |-> TextRange_new("Comment", R.value, start_pos, R.L.cursor)]

lex_single_line_comment(L) ==
    IF L.window[1] # "#" THEN [L |-> L, res |-> Panic]
    ELSE comment_token(comment_loop(jump_forward_n_chars(L, 1), <<>>), L.cursor)

\* ---------------------------------------------------------------- strings
Quotes == {"\"", "'"}

\* StringKind::try_from(char) and StringKind::try_from([char; 2]).
StringKind_try_from(prefix) ==
    CASE prefix \in {<<"r">>, <<"R">>} -> "RawString"
      [] prefix \in {<<"b">>, <<"B">>} -> "Bytes"
      [] prefix \in {<<"f">>, <<"F">>} -> "FString"
      [] prefix \in {<<"u">>, <<"U">>} -> "Unicode"
      [] prefix \in {<<"r", "b">>, <<"b", "r">>, <<"R", "B">>, <<"B", "R">>,
                     <<"r", "B">>, <<"R", "b">>, <<"b", "R">>, <<"B", "r">>} -> "RawBytes"
      [] prefix \in {<<"r", "f">>, <<"f", "r">>, <<"R", "F">>, <<"F", "R">>,
                     <<"r", "F">>, <<"R", "f">>, <<"f", "R">>, <<"F", "r">>} -> "RawFString"
      [] OTHER -> None

StringKind_prefix_len(kind) ==
    CASE kind = "String" -> 0
      [] kind \in {"RawString", "Bytes", "FString", "Unicode"} -> 1
      [] OTHER -> 2

\* The content loop of lex_string.  An ordinary character is pushed to the
\* value without advancing the reader, so the loop never leaves it: "hang".
RECURSIVE string_loop(_, _, _, _)

\* A backslash: N is the state after next_char.
string_escape(N, content, quote_char, is_triple_quoted) ==
    IF N.window[1] # None
    THEN string_loop(N, content \o <<"\\", N.window[1]>>, quote_char, is_triple_quoted)
    ELSE string_loop(N, Append(content, "\\"), quote_char, is_triple_quoted)

string_loop(L, content, quote_char, is_triple_quoted) ==
    IF L.window[1] = None
    THEN [L |-> L, content |-> content,
          err |-> Err(IF is_triple_quoted THEN "Eof" ELSE "StringError", L.cursor)]
    ELSE IF L.window[1] = "\\"
    THEN string_escape(next_char(L), content, quote_char, is_triple_quoted)
    ELSE IF L.window[1] = "\n" /\ ~is_triple_quoted
    THEN [L |-> L, content |-> content, err |-> Err("OtherError", L.cursor)]
    ELSE IF L.window[1] = quote_char
    THEN [L |-> jump_forward_n_chars(L, IF is_triple_quoted THEN 3 ELSE 1),
          content |-> content, err |-> NoErr]
    ELSE [L |-> L, content |-> Append(content, L.window[1]), err |-> Hang(L.cursor)]

\* The statements of lex_string after its loop.
string_token(R, kind, is_triple_quoted, start_pos) ==
    IF R.err.type # "ok" THEN [L |-> R.L, res |-> R.err]
    ELSE [L |-> R.L,
          res |-> TextRange_new(IF is_triple_quoted THEN "String3" ELSE "String",
                                <<kind>> \o R.content, start_pos, R.L.cursor)]

\* lex_string from the opening quote on: P is the state after the prefix.
string_body(P, kind, start_pos, is_triple_quoted) ==
    IF P.window[1] = None THEN [L |-> P, res |-> Panic]
    ELSE string_token(string_loop(jump_forward_n_chars(P, IF is_triple_quoted THEN 3 ELSE 1),
                                  <<>>, P.window[1], is_triple_quoted),
                      kind, is_triple_quoted, start_pos)

string_quotes(P, kind, start_pos) ==
    string_body(P, kind, start_pos, P.window = <<P.window[1], P.window[1], P.window[1]>>)

lex_string(L, kind) ==
    string_quotes(jump_forward_n_chars(L, StringKind_prefix_len(kind)), kind, L.cursor)

\* NoMatch is the None of the Option; otherwise the result of lex_string or an error.
tagged_string(L, kind) ==
    IF kind # None THEN lex_string(L, kind)
    ELSE [L |-> L, res |-> Err("OtherError", L.cursor)]

try_lex_tagged_string(L) ==
    IF L.window[1] # None /\ L.window[2] \in Quotes
    THEN tagged_string(L, StringKind_try_from(<<L.window[1]>>))
    ELSE IF L.window[1] # None /\ L.window[2] # None /\ L.window[3] \in Quotes
    THEN tagged_string(L, StringKind_try_from(<<L.window[1], L.window[2]>>))
    ELSE [L |-> L, res |-> NoMatch]

\* ---------------------------------------------------------------- numbers
\* The loop of radix_run.
RECURSIVE radix_run(_, _, _)
\* Mutant: an underscore is skipped whatever follows it.
radix_run_mut(L, radix, value_text) ==
    IF L.window[1] # None /\ L.window[2] # None /\ is_digit_of_radix(L.window[1], radix)
    THEN IF ~is_digit_of_radix(L.window[2], radix) /\ L.window[2] # "_"
         THEN [L |-> jump_forward_n_chars(L, 1), text |-> Append(value_text, L.window[1]),
               err |-> NoErr]
         ELSE radix_run(jump_forward_n_chars(L, 1), radix, Append(value_text, L.window[1]))
    ELSE IF L.window[1] # None /\ L.window[2] = None /\ is_digit_of_radix(L.window[1], radix)
    THEN [L |-> jump_forward_n_chars(L, 1), text |-> Append(value_text, L.window[1]),
          err |-> NoErr]
    ELSE IF L.window[1] = "_"
    THEN radix_run(jump_forward_n_chars(L, 1), radix, value_text)
    ELSE [L |-> L, text |-> value_text, err |-> NoErr]

radix_run(L, radix, value_text) ==
    IF L.window[1] # None /\ L.window[2] # None /\ is_digit_of_radix(L.window[1], radix)
    THEN IF ~is_digit_of_radix(L.window[2], radix) /\ L.window[2] # "_"
         THEN [L |-> jump_forward_n_chars(L, 1), text |-> Append(value_text, L.window[1]),
               err |-> NoErr]
         ELSE radix_run(jump_forward_n_chars(L, 1), radix, Append(value_text, L.window[1]))
    ELSE IF L.window[1] # None /\ L.window[2] = None /\ is_digit_of_radix(L.window[1], radix)
    THEN [L |-> jump_forward_n_chars(L, 1), text |-> Append(value_text, L.window[1]),
          err |-> NoErr]
    ELSE IF L.window[1] = "_" /\ L.window[2] # None
    THEN IF ~is_digit_of_radix(L.window[2], radix)
         THEN [L |-> L, text |-> value_text, err |-> Err("OtherError", L.cursor)]
         ELSE radix_run(jump_forward_n_chars(L, 1), radix, value_text)
    ELSE IF L.window[1] = "_" /\ L.window[2] = None
    THEN [L |-> L, text |-> value_text, err |-> Err("OtherError", L.cursor)]
    ELSE [L |-> L, text |-> value_text, err |-> NoErr]

DigitValue(c) ==
    CASE c = "0" -> 0 [] c = "1" -> 1 [] c = "2" -> 2 [] c = "3" -> 3 [] c = "4" -> 4
      [] c = "5" -> 5 [] c = "6" -> 6 [] c = "7" -> 7 [] c = "8" -> 8 [] c = "9" -> 9
      [] c \in {"a", "A"} -> 10 [] c \in {"b", "B"} -> 11 [] c \in {"c", "C"} -> 12
      [] c \in {"d", "D"} -> 13 [] c \in {"e", "E"} -> 14 [] c \in {"f", "F"} -> 15
      [] OTHER -> 99

\* i64::from_str_radix: -1 stands for the Err result (empty text or a digit
\* that is not below the radix).  Texts within the bounds never overflow i64.
RECURSIVE from_str_radix(_, _, _)
from_str_radix(text, radix, acc) ==
    IF text = <<>> THEN acc
    ELSE IF DigitValue(Head(text)) >= radix THEN -1
    ELSE from_str_radix(Tail(text), radix, acc * radix + DigitValue(Head(text)))

int_token(L, value_text, value, start_pos) ==
    IF value < 0 THEN [L |-> L, res |-> Err("OtherError", L.cursor)]
    ELSE [L |-> L,
          res |-> [TextRange_new("Int", value_text, start_pos, L.cursor) EXCEPT !.value = value]]

IntToken(L, value_text, radix, start_pos) ==
    int_token(L, value_text,
              IF value_text = <<>> THEN -1 ELSE from_str_radix(value_text, radix, 0), start_pos)

radix_token(R, radix, start_pos) ==
    IF R.err.type # "ok" THEN [L |-> R.L, res |-> R.err]
    ELSE IntToken(R.L, R.text, radix, start_pos)

\* Mutant: the digits are parsed in base 10 whatever the prefix.
lex_number_radix_mut(L, radix) ==
    radix_token(radix_run(jump_forward_n_chars(L, 2), radix, <<>>), 10, L.cursor)

lex_number_radix(L, radix) ==
    radix_token(radix_run(jump_forward_n_chars(L, 2), radix, <<>>), radix, L.cursor)

\* A digit run R appended to the text read so far.
appended_run(R, value_text, flag) ==
    [L |-> R.L, text |-> value_text \o R.text, flag |-> flag, err |-> R.err]

\* "Handle float" of lex_number: the state, the text and is_float.
lex_number_fraction(L, value_text) ==
    IF L.window[1] = "." /\ L.window[2] = "_"
    THEN [L |-> L, text |-> value_text, flag |-> FALSE, err |-> Err("OtherError", L.cursor)]
    ELSE IF L.window[1] = "." /\ L.window[2] # None /\ is_digit_of_radix(L.window[2], 10)
    THEN appended_run(radix_run(jump_forward_n_chars(L, 1), 10, <<>>),
                      Append(value_text, "."), TRUE)
    ELSE IF L.window[1] = "."
    THEN [L |-> jump_forward_n_chars(L, 1), text |-> Append(value_text, "."),
          flag |-> TRUE, err |-> NoErr]
    ELSE [L |-> L, text |-> value_text, flag |-> FALSE, err |-> NoErr]

\* The digits of a signed exponent: S is the state after the sign.
signed_exponent(S, text) ==
    IF S.window[1] = None \/ ~is_digit_of_radix(S.window[1], 10)
    THEN [L |-> S, text |-> text, flag |-> TRUE, err |-> Err("OtherError", S.cursor)]
    ELSE appended_run(radix_run(S, 10, <<>>), text, TRUE)

\* "Handle exponent" of lex_number: the state, the text and is_scientific_notation.
lex_number_exponent(L, value_text) ==
    IF L.window[1] \in {"e", "E"} /\ L.window[2] = None
    THEN [L |-> L, text |-> value_text, flag |-> FALSE, err |-> Err("OtherError", L.cursor)]
    ELSE IF L.window[1] \in {"e", "E"} /\ L.window[2] \in {"+", "-"}
    THEN signed_exponent(jump_forward_n_chars(next_char(L), 1),
                         value_text \o <<L.window[1], L.window[2]>>)
    ELSE IF L.window[1] \in {"e", "E"}
    THEN IF ~is_digit_of_radix(L.window[2], 10)
         THEN [L |-> L, text |-> value_text, flag |-> TRUE,
               err |-> Err("OtherError", L.cursor + 2)]
         ELSE appended_run(radix_run(jump_forward_n_chars(L, 1), 10, <<>>),
                           Append(value_text, "e"), TRUE)
    ELSE [L |-> L, text |-> value_text, flag |-> FALSE, err |-> NoErr]

complex_token(J, text, start_pos) ==
    [L |-> J, res |-> TextRange_new("Complex", text, start_pos, J.cursor)]

\* The classification at the end of lex_number.  Float and Complex tokens
\* carry the accumulated text; the float value is not modelled.
number_token(X, is_float, is_start_zero, start_pos) ==
    IF X.err.type # "ok" THEN [L |-> X.L, res |-> X.err]
    ELSE IF X.L.window[1] \in {"j", "J"}
    THEN complex_token(jump_forward_n_chars(X.L, 1), X.text, start_pos)
    ELSE IF is_float \/ X.flag
    THEN [L |-> X.L, res |-> TextRange_new("Float", X.text, start_pos, X.L.cursor)]
    ELSE IF is_start_zero /\ Len(X.text) > 1
    THEN [L |-> X.L, res |-> Err("OtherError", X.L.cursor)]
    ELSE IntToken(X.L, X.text, 10, start_pos)

number_after_fraction(F, is_start_zero, start_pos) ==
    IF F.err.type # "ok" THEN [L |-> F.L, res |-> F.err]
    ELSE number_token(lex_number_exponent(F.L, F.text), F.flag, is_start_zero, start_pos)

number_after_run(R, is_start_zero, start_pos) ==
    IF R.err.type # "ok" THEN [L |-> R.L, res |-> R.err]
    ELSE number_after_fraction(lex_number_fraction(R.L, R.text), is_start_zero, start_pos)

lex_number(L) ==
    IF L.window[1] = "0" /\ L.window[2] \in {"x", "X"} THEN lex_number_radix(L, 16)
    ELSE IF L.window[1] = "0" /\ L.window[2] \in {"o", "O"} THEN lex_number_radix(L, 8)
    ELSE IF L.window[1] = "0" /\ L.window[2] \in {"b", "B"} THEN lex_number_radix(L, 2)
    ELSE number_after_run(radix_run(L, 10, <<>>), L.window[1] = "0", L.cursor)

\* -------------------------------------------------------------- operators
\* The operator and punctuation arms of lex_next: <<characters, token>>.
Operators ==
    { <<<<"=", "=">>, "EqEqual">>, <<<<"=">>, "Equal">>,
      <<<<"+", "=">>, "PlusEqual">>, <<<<"+">>, "Plus">>,
      <<<<"*", "*", "=">>, "DoubleStarEqual">>, <<<<"*", "*">>, "DoubleStar">>,
      <<<<"*", "=">>, "StarEqual">>, <<<<"*">>, "Star">>,
      <<<<"/", "/", "=">>, "DoubleSlashEqual">>, <<<<"/", "/">>, "DoubleSlash">>,
      <<<<"/", "=">>, "SlashEqual">>, <<<<"/">>, "Slash">>,
      <<<<"%", "=">>, "PercentEqual">>, <<<<"%">>, "Percent">>,
      <<<<"|", "=">>, "VbarEqual">>, <<<<"|">>, "Vbar">>,
      <<<<"^", "=">>, "CircumflexEqual">>, <<<<"^">>, "CircumFlex">>,
      <<<<"&", "=">>, "AmperEqual">>, <<<<"&">>, "Amper">>,
      <<<<"-", "=">>, "MinusEqual">>, <<<<"-", ">">>, "Rarrow">>, <<<<"-">>, "Minus">>,
      <<<<"@", "=">>, "AtEqual">>, <<<<"@">>, "At">>,
      <<<<"!", "=">>, "NotEqual">>,
      <<<<"~">>, "Tilde">>,
      <<<<":", "=">>, "ColonEqual">>, <<<<":">>, "Colon">>,
      <<<<";">>, "Semi">>,
      <<<<"<", "<", "=">>, "LeftShiftEqual">>, <<<<"<", "<">>, "LeftShift">>,
      <<<<"<", "=">>, "LessEqual">>, <<<<"<">>, "Less">>,
      <<<<">", ">", "=">>, "RightShiftEqual">>, <<<<">", ">">>, "RightShift">>,
      <<<<">", "=">>, "GreaterEqual">>, <<<<">">>, "Greater">>,
      <<<<",">>, "Comma">>,
      <<<<".", ".", ".">>, "Ellipsis">>, <<<<".">>, "Dot">> }

OpTexts == {o[1] : o \in Operators}

OpToken(text) == (CHOOSE o \in Operators : o[1] = text)[2]

\* The arms of one first character are ordered longest first, so the arm
\* that matches is the longest operator that is a prefix of the window.
MatchOperator(w) ==
    IF w \in OpTexts THEN w
    ELSE IF SubSeq(w, 1, 2) \in OpTexts THEN SubSeq(w, 1, 2)
    ELSE IF SubSeq(w, 1, 1) \in OpTexts THEN SubSeq(w, 1, 1)
    ELSE <<>>

Openers == {"(", "[", "{"}

Closers == {")", "]", "}"}

BracketToken(c) ==
    CASE c = "(" -> "Lpar" [] c = ")" -> "Rpar" [] c = "[" -> "Lsqb"
      [] c = "]" -> "Rsqb" [] c = "{" -> "Lbrace" [] c = "}" -> "Rbrace"

BlankChars == {" ", "\t", "\f"}

RECURSIVE whitespace_loop(_)
whitespace_loop(L) ==
    IF L.window[1] \in BlankChars THEN whitespace_loop(next_char(L)) ELSE L

\* A token made of the next n characters: TextRange::new(cursor, jump_forward_n_chars(n)).
Advance(L, kind, n) ==
    LET J == jump_forward_n_chars(L, n)
    IN [L |-> J, res |-> TextRange_new(kind, SubSeq(L.window, 1, n), L.cursor, J.cursor)]

\* Mutant: a saturating decrement instead of the NestingError.
lex_closing_bracket_mut(L, c) ==
    Advance([L EXCEPT !.nesting = IF @ = 0 THEN 0 ELSE @ - 1], BracketToken(c), 1)

\* The arms of lex_next for ')', ']' and '}'.
lex_closing_bracket(L, c) ==
    IF L.nesting = 0 THEN [L |-> L, res |-> Err("NestingError", L.cursor)]
    ELSE Advance([L EXCEPT !.nesting = @ - 1], BracketToken(c), 1)

\* Mutant: a line terminator ends the logical line whatever the nesting.
lex_line_terminator_mut(L) == Advance([L EXCEPT !.abol = TRUE], "Newline", 1)

\* The arm of lex_next for '\n' and '\r'.
lex_line_terminator(L) ==
    IF L.nesting = 0
    THEN Advance([L EXCEPT !.abol = TRUE], "Newline", 1)
    ELSE Advance(L, "NonLogicalNewline", 1)

lex_next(L) ==
    LET c == L.window[1]
        op == MatchOperator(L.window)
    IN IF c \in Digits THEN lex_number(L)
       ELSE IF c = "#" THEN lex_single_line_comment(L)
       ELSE IF c \in Quotes THEN lex_string(L, "String")
       ELSE IF op # <<>> THEN Advance(L, OpToken(op), Len(op))
       ELSE IF c = "!" THEN [L |-> L, res |-> Err("UnrecognizedToken", L.cursor)]
       ELSE IF c \in Openers
       THEN Advance([L EXCEPT !.nesting = @ + 1], BracketToken(c), 1)
       ELSE IF c \in Closers THEN lex_closing_bracket(L, c)
       ELSE IF c \in {"\n", "\r"} THEN lex_line_terminator(L)
       ELSE IF c \in BlankChars
       THEN LET W == whitespace_loop(L)
            IN [L |-> W, res |-> TextRange_new("WhiteSpace", <<>>, L.cursor, W.cursor)]
       ELSE IF c = "\\" /\ L.window[2] \in {"\n", "\r"}
       THEN [L |-> L, res |-> Err("LineContinuationError", L.cursor)]
       ELSE IF c = "\\" /\ L.window[2] = None
       THEN [L |-> L, res |-> Err("Eof", L.cursor)]
       ELSE IF c # None /\ is_emoji_presentation(c) THEN Advance(L, "Name", 1)
       ELSE IF c # None THEN [L |-> L, res |-> Err("UnrecognizedToken", L.cursor)]
       ELSE [L |-> L, res |-> Panic]

\* ------------------------------------------------------------ token driver
Push(L, tok) == [L EXCEPT !.queue = Append(@, tok)]

\* Mutant: the flush pops the levels without queueing their Dedent tokens.
RECURSIVE flush_indentations_mut(_)
flush_indentations_mut(L) ==
    IF Indentations_is_empty(L.stack) THEN L
    ELSE flush_indentations_mut([L EXCEPT !.stack = Indentations_pop(@)])

\* The end-of-file flush loop: one Dedent per level above the base.
RECURSIVE flush_indentations(_)
flush_indentations(L) ==
    IF Indentations_is_empty(L.stack) THEN L
    ELSE flush_indentations(
             Push([L EXCEPT !.stack = Indentations_pop(@)],
                  Tok("Dedent", <<>>, L.cursor, L.cursor)))

\* Results of the driver's steps are [L, err]: err.type is "ok" or the
\* error (or panic, or hang) that the ? operator hands to the caller.
push_end_of_file(F) ==
    [L |-> Push(F, Tok("EndOfFile", <<>>, F.cursor, F.cursor)), err |-> NoErr]

\* Mutant: the trailing Newline is queued without setting at_begin_of_line.
populate_end_of_file_mut_flag(L) ==
    IF L.nesting > 0 THEN [L |-> L, err |-> Err("Eof", L.cursor)]
    ELSE push_end_of_file(flush_indentations(
             IF ~L.abol
             THEN Push(L, Tok("Newline", <<>>, L.cursor, L.cursor))
             ELSE L))

\* Mutant: the end of input is flushed without looking at the nesting counter.
populate_end_of_file_mut_nesting(L) ==
    push_end_of_file(flush_indentations(
        IF ~L.abol
        THEN Push([L EXCEPT !.abol = TRUE], Tok("Newline", <<>>, L.cursor, L.cursor))
        ELSE L))

\* Mutant: the trailing Newline is queued after the Dedent tokens.
populate_end_of_file_mut_order(L) ==
    IF L.nesting > 0 THEN [L |-> L, err |-> Err("Eof", L.cursor)]
    ELSE push_end_of_file(
             IF ~L.abol
             THEN Push([flush_indentations(L) EXCEPT !.abol = TRUE],
                       Tok("Newline", <<>>, L.cursor, L.cursor))
             ELSE flush_indentations(L))

\* The "End of file" arm of populate_results_queue.
populate_end_of_file(L) ==
    IF L.nesting > 0 THEN [L |-> L, err |-> Err("Eof", L.cursor)]
    ELSE push_end_of_file(flush_indentations(
             IF ~L.abol
             THEN Push([L EXCEPT !.abol = TRUE], Tok("Newline", <<>>, L.cursor, L.cursor))
             ELSE L))

\* Mutant: every token is queued, the WhiteSpace token too.
push_token_mut(R) ==
    IF R.res.type # "tok" THEN [L |-> R.L, err |-> R.res]
    ELSE [L |-> Push(R.L, R.res), err |-> NoErr]

\* self.queue.push(token?), and "Just ignore whitespace".
push_token(R) ==
    IF R.res.type # "tok" THEN [L |-> R.L, err |-> R.res]
    ELSE IF R.res.kind # "WhiteSpace" THEN [L |-> Push(R.L, R.res), err |-> NoErr]
    ELSE [L |-> R.L, err |-> NoErr]

\* if let Some(token) = try_lex_tagged_string() ... else lex_identifier_or_keyword().
tagged_or_identifier(T, L) ==
    IF T.res.type # "nomatch" THEN T ELSE lex_identifier_or_keyword(L)

populate_dispatch(L) ==
    IF L.window[1] # None /\ is_identifier_or_keywords_start(L.window[1])
    THEN push_token(tagged_or_identifier(try_lex_tagged_string(L), L))
    ELSE IF L.window[1] # None THEN push_token(lex_next(L))
    ELSE populate_end_of_file(L)

populate_results_queue(L) ==
    populate_dispatch([L EXCEPT !.probe.c = L.window[1], !.probe.nesting = L.nesting,
                                !.probe.cursor = L.cursor, !.probe.qlen = Len(L.queue)])

\* The NonLogicalNewline of a blank line; A is the token and the state after it.
RECURSIVE indentation_scan(_, _)
blank_line(A) ==
    IF A.res.type # "tok" THEN [L |-> A.L, lvl |-> Level(0, 0), err |-> A.res]
    ELSE indentation_scan(Push(A.L, A.res), Level(0, 0))

\* Mutant: the tab that is rejected is consumed.
indentation_tab_mut(L, lvl) ==
    IF lvl.spaces # 0
    THEN [L |-> next_char(L), lvl |-> lvl, err |-> Err("TabsAfterSpaces", L.cursor)]
    ELSE indentation_scan(next_char(L), Level(lvl.tabs + 1, lvl.spaces))

\* The '\t' arm of the scanning loop.
indentation_tab(L, lvl) ==
    IF lvl.spaces # 0
    THEN [L |-> L, lvl |-> lvl, err |-> Err("TabsAfterSpaces", L.cursor)]
    ELSE indentation_scan(next_char(L), Level(lvl.tabs + 1, lvl.spaces))

\* The scanning loop of handle_indentations.
indentation_scan(L, lvl) ==
    CASE L.window[1] = " " -> indentation_scan(next_char(L), Level(lvl.tabs, lvl.spaces + 1))
      [] L.window[1] = "\t" -> indentation_tab(L, lvl)
      [] L.window[1] = "#" -> indentation_scan(lex_single_line_comment(L).L, Level(0, 0))
      [] L.window[1] = "\f" -> indentation_scan(next_char(L), Level(0, 0))
      [] L.window[1] \in {"\n", "\r"} -> blank_line(Advance(L, "NonLogicalNewline", 1))
      [] L.window[1] = None -> [L |-> L, lvl |-> Level(0, 0), err |-> NoErr]
      [] OTHER -> [L |-> [L EXCEPT !.abol = FALSE], lvl |-> lvl, err |-> NoErr]

Compared(L, a, b, ordering) ==
    [L EXCEPT !.probe.a = a, !.probe.b = b, !.probe.ord = ordering]

\* The "one or more dedentations" loop of handle_indentations; ordering is
\* the result of its compare_strict call.
RECURSIVE dedent_loop(_, _)
\* Mutant: a level above the new top ends the loop like an equal one.
dedent_step_mut(L, lvl, ordering) ==
    CASE ordering = "TabError" -> [L |-> L, err |-> Err("TabError", L.cursor)]
      [] ordering = "Less" ->
           dedent_loop(Push([L EXCEPT !.stack = Indentations_pop(@)],
                            Tok("Dedent", <<>>, L.cursor, L.cursor)), lvl)
      [] ordering = "Equal" -> [L |-> L, err |-> NoErr]
      [] ordering = "Greater" -> [L |-> L, err |-> NoErr]

\* Mutant: the loop pops a level without queueing its Dedent.
dedent_step_mut_silent(L, lvl, ordering) ==
    CASE ordering = "TabError" -> [L |-> L, err |-> Err("TabError", L.cursor)]
      [] ordering = "Less" -> dedent_loop([L EXCEPT !.stack = Indentations_pop(@)], lvl)
      [] ordering = "Equal" -> [L |-> L, err |-> NoErr]
      [] ordering = "Greater" -> [L |-> L, err |-> Err("IndentationError", L.cursor)]

dedent_step(L, lvl, ordering) ==
    CASE ordering = "TabError" -> [L |-> L, err |-> Err("TabError", L.cursor)]
      [] ordering = "Less" ->
           dedent_loop(Push([L EXCEPT !.stack = Indentations_pop(@)],
                            Tok("Dedent", <<>>, L.cursor, L.cursor)), lvl)
      [] ordering = "Equal" -> [L |-> L, err |-> NoErr]
      [] ordering = "Greater" -> [L |-> L, err |-> Err("IndentationError", L.cursor)]

dedent_compared(L, lvl, top, ordering) ==
    dedent_step(Compared(L, lvl, top, ordering), lvl, ordering)

dedent_loop(L, lvl) ==
    dedent_compared(L, lvl, Indentations_current(L.stack),
                    compare_strict(lvl, Indentations_current(L.stack)))

\* Mutant: the Indent range is built with its two ends exchanged.
push_indent_mut(L, start) ==
    IF TextRange_new("Indent", <<>>, L.cursor, start).type = "panic" THEN [L |-> L, err |-> Panic]
    ELSE [L |-> Push(L, Tok("Indent", <<>>, L.cursor, start)), err |-> NoErr]

\* The Indent token: its start is cursor - spaces - tabs in u32.
push_indent(L, start) ==
    IF start < 0 \/ start > L.cursor THEN [L |-> L, err |-> Panic]
    ELSE [L |-> Push(L, Tok("Indent", <<>>, start, L.cursor)), err |-> NoErr]

\* Mutant: a deeper level queues the Indent without pushing the level.
indentation_step_mut(L, lvl, ordering) ==
    CASE ordering = "TabError" -> [L |-> L, err |-> Err("TabError", L.cursor)]
      [] ordering = "Equal" -> [L |-> L, err |-> NoErr]
      [] ordering = "Greater" -> push_indent(L, L.cursor - lvl.spaces - lvl.tabs)
      [] ordering = "Less" -> dedent_loop(L, lvl)

\* The match on the ordering in handle_indentations.
indentation_step(L, lvl, ordering) ==
    CASE ordering = "TabError" -> [L |-> L, err |-> Err("TabError", L.cursor)]
      [] ordering = "Equal" -> [L |-> L, err |-> NoErr]
      [] ordering = "Greater" ->
           push_indent([L EXCEPT !.stack = Append(@, lvl)], L.cursor - lvl.spaces - lvl.tabs)
      [] ordering = "Less" -> dedent_loop(L, lvl)

indentation_compared(L, lvl, top, ordering) ==
    indentation_step(Compared(L, lvl, top, ordering), lvl, ordering)

\* The statements of handle_indentations after its scanning loop.
indentation_compare(S) ==
    IF S.err.type # "ok" THEN [L |-> S.L, err |-> S.err]
    ELSE indentation_compared(S.L, S.lvl, Indentations_current(S.L.stack),
                              compare_strict(S.lvl, Indentations_current(S.L.stack)))

handle_indentations(L) == indentation_compare(indentation_scan(L, Level(0, 0)))

\* The loop of inner_next: P is the result of populate_results_queue and H
\* the result of handle_indentations (or of skipping it).
RECURSIVE inner_next(_)
after_populate(P) ==
    IF P.err.type # "ok" THEN [L |-> P.L, res |-> P.err] ELSE inner_next(P.L)

after_indentations(H) ==
    IF H.err.type # "ok" THEN [L |-> H.L, res |-> H.err]
    ELSE after_populate(populate_results_queue(H.L))

inner_next(L) ==
    IF L.queue # <<>>
    THEN [L |-> [L EXCEPT !.queue = Tail(@)], res |-> Head(L.queue)]
    ELSE after_indentations(IF L.abol THEN handle_indentations(L)
                            ELSE [L |-> L, err |-> NoErr])

\* Iterator::next for Lexer: the EndOfFile sentinel becomes None.
hide_end_of_file(R) ==
    IF R.res.type = "tok" /\ R.res.kind = "EndOfFile"
    THEN [L |-> R.L, res |-> EndOfStream]
    ELSE R

Lexer_next(L) == hide_end_of_file(inner_next([L EXCEPT !.probe = NoProbe]))

\* --------------------------------------------------------- construction
CharReader_new(src) ==
    CharReader_next(CharReader_next(CharReader_next(
        [src |-> src, rd |-> 0, window |-> <<None, None, None>>, cursor |-> 0,
         abol |-> TRUE, nesting |-> 0, stack |-> <<Level(0, 0)>>, queue |-> <<>>,
         probe |-> NoProbe])))

skip_byte_order_mark(L) == IF L.window[1] = "BOM" THEN next_char(L) ELSE L

Lexer_new(src) == skip_byte_order_mark(CharReader_new(src))

\* ------------------------------------------------------------- sources
RECURSIVE SeqsUpTo(_, _)
SeqsUpTo(S, n) ==
    IF n = 0 THEN {<<>>}
    ELSE LET P == SeqsUpTo(S, n - 1)
         IN P \cup {Append(p, x) : p \in {q \in P : Len(q) = n - 1}, x \in S}

Alphabet == {"a", " ", "\t", "\n", "(", ")", "1", "="}

\* The source sets take their bounds as parameters.
Sources(len) == SeqsUpTo(Alphabet, len)

RECURSIVE Repeat(_, _)
Repeat(c, n) == IF n = 0 THEN <<>> ELSE <<c>> \o Repeat(c, n - 1)

RECURSIVE Flatten(_)
Flatten(ss) == IF ss = <<>> THEN <<>> ELSE Head(ss) \o Flatten(Tail(ss))

\* Leading white space: tabs, then spaces; 8 spaces is the width of the
\* documented example.
Indents(tabs, spaces) ==
    {Repeat("\t", t) \o Repeat(" ", n) : t \in 0..tabs, n \in (0..spaces) \cup {8}}

\* Lines "<tabs><spaces>a\n".
IndentedLines(tabs, spaces) == {i \o <<"a", "\n">> : i \in Indents(tabs, spaces)}

\* A last line "<tabs><spaces>1" without a line break, or none.
LastLines(tabs, spaces) == {<<>>} \cup {i \o <<"1">> : i \in Indents(tabs, spaces)}

IndentSources(lines, tabs, spaces) ==
    {Flatten(ls) \o t : ls \in SeqsUpTo(IndentedLines(tabs, spaces), lines) \ {<<>>},
                        t \in LastLines(tabs, spaces)}

\* Numeric, operator and identifier tokens separated by single spaces, then a line break.
PlainTokens ==
    { <<"a">>, <<"a", "b">>, <<"U2">>, <<"1">>, <<"1", "2">>, <<"0", "x", "f">>,
      <<"=">>, <<"=", "=">>, <<"*", "*", "=">>, <<"+">> }

RECURSIVE Join(_)
Join(ts) == IF Len(ts) = 1 THEN Head(ts) ELSE Head(ts) \o <<" ">> \o Join(Tail(ts))

PlainSources(toks) == {Join(ts) \o <<"\n">> : ts \in SeqsUpTo(PlainTokens, toks) \ {<<>>}}

\* ------------------------------------------------------------ state machine
Lexer == [src |-> source, rd |-> rd, window |-> window, cursor |-> cursor,
          abol |-> at_begin_of_line, nesting |-> nesting, stack |-> indent_stack,
          queue |-> queue, probe |-> probe]

Constructed(L) ==
    /\ rd = L.rd
    /\ window = L.window
    /\ cursor = L.cursor
    /\ at_begin_of_line = L.abol
    /\ nesting = L.nesting
    /\ indent_stack = L.stack
    /\ queue = L.queue
    /\ probe = L.probe

\* The server after construction: a Lexer over one of the sources, a
\* Scanner over one of the byte streams and a new RequestHandler.
InitServer(S, streams) ==
    /\ source \in S
    /\ Constructed(Lexer_new(source))
    /\ out = <<>>
    /\ call = NoCall
    /\ scanner \in {Scanner_from_reader(stream) : stream \in streams}
    /\ handler = RequestHandler_new

InitFrom(S) == InitServer(S, {<<>>})

Init == InitFrom(Sources(MaxLen))

Last == IF out = <<>> THEN NoErr ELSE out[Len(out)]

\* The caller receives R.res and the Lexer is left in the state R.L.
Returned(R) ==
    /\ rd' = R.L.rd
    /\ window' = R.L.window
    /\ cursor' = R.L.cursor
    /\ at_begin_of_line' = R.L.abol
    /\ nesting' = R.L.nesting
    /\ indent_stack' = R.L.stack
    /\ queue' = R.L.queue
    /\ probe' = R.L.probe
    /\ out' = Append(out, R.res)

\* One call of next() by the caller.  A call that panicked or never
\* returned is the last one.
Pull ==
    /\ Len(out) < MaxPulls
    /\ Last.type \notin {"panic", "hang"}
    /\ Returned(Lexer_next(Lexer))
    /\ UNCHANGED <<source, call, scanner, handler>>

Next == Pull

Spec == Init /\ [][Next]_vars

SpecIndent == InitFrom(IndentSources(MaxLines, MaxTabs, MaxSpaces)) /\ [][Next]_vars

SpecPlain == InitFrom(PlainSources(MaxToks)) /\ [][Next]_vars

\* ------------------------------------------------- sources with \r\n breaks
\* The source s with every line break written as \r\n.
RECURSIVE ToCrlf(_)
ToCrlf(s) ==
    IF s = <<>> THEN <<>>
    ELSE (IF Head(s) = "\n" THEN <<"\r", "\n">> ELSE <<Head(s)>>) \o ToCrlf(Tail(s))

CrlfSources(len) == {ToCrlf(s) : s \in Sources(len)}

SpecCrlf == InitFrom(CrlfSources(MaxLen)) /\ [][Next]_vars

\* lex_source of the tests: the results of the first n calls of next() on L.
RECURSIVE lex_source_loop(_, _)
lex_source_step(R, n) ==
    <<R.res>> \o (IF R.res.type \in {"panic", "hang"} THEN <<>> ELSE lex_source_loop(R.L, n - 1))

lex_source_loop(L, n) == IF n = 0 THEN <<>> ELSE lex_source_step(Lexer_next(L), n)

\* ------------------------------------------------- sources of string literals
StringSources(len) == SeqsUpTo({"'", "\"", "\\", "a", "\n"}, len)

SpecString == InitFrom(StringSources(MaxLen)) /\ [][Next]_vars

\* ------------------------------------------------------ sources of comments
CommentSources(len) == SeqsUpTo({"#", "1", "b", " ", "\n", "\r", "("}, len)

SpecComment == InitFrom(CommentSources(MaxLen)) /\ [][Next]_vars

\* --------------------------------------------------- free-standing functions
\* The length of a text in UTF-8 bytes.
RECURSIVE text_len(_)
text_len(text) == IF text = <<>> THEN 0 ELSE Utf8Len(Head(text)) + text_len(Tail(text))

\* Mutant: the loop returns at the first character that starts after the offset.
RECURSIVE to_char_index_loop_mut(_, _, _, _, _)
to_char_index_loop_mut(chars, utf_8_offset, idx, utf_8_sum, num_chars) ==
    IF idx = Len(chars) THEN num_chars
    ELSE IF utf_8_sum > utf_8_offset THEN idx
    ELSE to_char_index_loop_mut(chars, utf_8_offset, idx + 1,
                                utf_8_sum + Utf8Len(chars[idx + 1]), num_chars + 1)

\* The for loop of to_char_index: idx is the index of enumerate(), from 0.
RECURSIVE to_char_index_loop(_, _, _, _, _)
to_char_index_loop(chars, utf_8_offset, idx, utf_8_sum, num_chars) ==
    IF idx = Len(chars) THEN num_chars
    ELSE IF utf_8_sum >= utf_8_offset THEN idx
    ELSE to_char_index_loop(chars, utf_8_offset, idx + 1,
                            utf_8_sum + Utf8Len(chars[idx + 1]), num_chars + 1)

\* Mutant: an offset inside a character gives the index of that character.
to_char_index_mut(chars, utf_8_offset) ==
    IF /\ to_char_index_loop(chars, utf_8_offset, 0, 0, 0) > 0
       /\ \E n \in 1..Len(chars) :
              /\ text_len(SubSeq(chars, 1, n - 1)) < utf_8_offset
              /\ utf_8_offset < text_len(SubSeq(chars, 1, n))
    THEN to_char_index_loop(chars, utf_8_offset, 0, 0, 0) - 1
    ELSE to_char_index_loop(chars, utf_8_offset, 0, 0, 0)

to_char_index(chars, utf_8_offset) == to_char_index_loop(chars, utf_8_offset, 0, 0, 0)

\* TextRange::new for a range on its own: the assert!(start <= end) panics.
TextRange(s, e) ==
    IF s <= e THEN [type |-> "range", start |-> s, end |-> e]
    ELSE [type |-> "panic", start |-> s, end |-> e]

Max(x, y) == IF x >= y THEN x ELSE y

Min(x, y) == IF x <= y THEN x ELSE y

\* TextRange::cover: lo is the cmp::max of the starts, hi the cmp::min of the ends.
TextRange_cover(a, b) == TextRange(Max(a.start, b.start), Min(a.end, b.end))

\* Texts of one-, two- and four-byte characters, and the text of test_to_char_offset.
Texts(len) == SeqsUpTo({"a", "U2", "U4"}, len) \cup {<<"a", "U4", "b", "U4", "d">>}

\* Every valid range with its end at most max.
Ranges(max) ==
    {TextRange(p[1], p[2]) : p \in {q \in (0..max) \X (0..max) : q[1] <= q[2]}}

LexerUnchanged ==
    UNCHANGED <<source, rd, window, cursor, at_begin_of_line, nesting,
                indent_stack, queue, out, probe>>

\* One call of to_char_index, with an offset up to one past the end of the text.
ToCharIndex ==
    /\ call = NoCall
    /\ \E text \in Texts(MaxLen) :
           \E offset \in 0..(text_len(text) + 1) :
               call' = [NoCall EXCEPT !.fn = "to_char_index", !.text = text, !.offset = offset,
                                      !.idx = to_char_index(text, offset)]
    /\ LexerUnchanged
    /\ UNCHANGED <<scanner, handler>>

\* One call of a.cover(b).
Cover ==
    /\ call = NoCall
    /\ \E a \in Ranges(MaxOffset), b \in Ranges(MaxOffset) :
           call' = [NoCall EXCEPT !.fn = "cover", !.a = a, !.b = b,
                                  !.range = TextRange_cover(a, b)]
    /\ LexerUnchanged
    /\ UNCHANGED <<scanner, handler>>

NextUtil == ToCharIndex \/ Cover

SpecUtil == InitFrom({<<>>}) /\ [][NextUtil]_vars

\* ----------------------------------------------- sources of integer literals
RadixPrefixes ==
    { <<"0", "x">>, <<"0", "X">>, <<"0", "o">>, <<"0", "O">>, <<"0", "b">>, <<"0", "B">> }

\* The literals of test_numbers that the claims quote.
QuotedLiterals ==
    { <<"0", "x", "2", "f">>, <<"0", "o", "1", "2">>, <<"0", "b", "1", "1", "0", "1">>,
      <<"1", "2", "3", "_", "4", "5", "_", "6", "7", "_", "8", "9", "0">> }

\* A radix prefix and up to n digits or underscores, or a decimal run of up
\* to n + 1 digits or underscores.
IntLiterals(n) ==
    {p \o d : p \in RadixPrefixes, d \in SeqsUpTo({"0", "1", "7", "f", "_"}, n) \ {<<>>}}
        \cup (SeqsUpTo({"0", "1", "7", "_"}, n + 1) \ {<<>>})
        \cup QuotedLiterals

\* An integer literal at the end of input or before a line break.
NumberSources(n) == {l \o t : l \in IntLiterals(n), t \in {<<>>, <<"\n">>}}

SpecNumber == InitFrom(NumberSources(MaxDigits)) /\ [][Next]_vars

\* ------------------------------------------------------------ rpc framing
\* Bytes are numbers 0..255.  constants::CONTENT_LENGTH_LABEL_BYTES is
\* "Content-Length: " and constants::JSON_RPC_DELIMITER_BYTES is "\r\n\r\n".
CONTENT_LENGTH_LABEL_BYTES ==
    <<67, 111, 110, 116, 101, 110, 116, 45, 76, 101, 110, 103, 116, 104, 58, 32>>

JSON_RPC_DELIMITER_BYTES == <<13, 10, 13, 10>>

\* The decimal digits of n, as the header of test_encode_message writes 16.
RECURSIVE DecimalDigits(_)
DecimalDigits(n) ==
    IF n < 10 THEN <<48 + n>> ELSE Append(DecimalDigits(n \div 10), 48 + (n % 10))

\* usize::to_be_bytes: the width bytes of n, most significant first.
RECURSIVE to_be_bytes(_, _)
to_be_bytes(n, width) ==
    IF width = 0 THEN <<>> ELSE Append(to_be_bytes(n \div 256, width - 1), n % 256)

\* The widths of usize on the targets the crate builds for, in bytes.
UsizeWidths == {4, 8}

\* encode_message once serde_json::to_string has produced the bytes json.
encode_message(json_bytes, width) ==
    CONTENT_LENGTH_LABEL_BYTES \o to_be_bytes(Len(json_bytes), width)
        \o JSON_RPC_DELIMITER_BYTES \o json_bytes

\* The body of test_encode_message: {"testing":true}.
TestingTrue ==
    <<123, 34, 116, 101, 115, 116, 105, 110, 103, 34, 58, 116, 114, 117, 101, 125>>

\* JSON bodies: texts of the bytes '{', '}' and '1', and the body of the test.
Bodies(len) == SeqsUpTo({123, 125, 49}, len) \cup {TestingTrue}

\* One call of encode_message.
EncodeMessage ==
    /\ call = NoCall
    /\ \E json_bytes \in Bodies(MaxLen), width \in UsizeWidths :
           call' = [NoCall EXCEPT !.fn = "encode_message", !.text = json_bytes,
                                  !.offset = width,
                                  !.bytes = encode_message(json_bytes, width)]
    /\ LexerUnchanged
    /\ UNCHANGED <<scanner, handler>>

NextRpc == EncodeMessage

SpecRpc == InitFrom({<<>>}) /\ [][NextRpc]_vars

\* ----------------------------------------------- sources with a blank line
\* The leading white space of a blank line, then a comment or none.
BlankLines(len) ==
    {w \o c \o <<"\n">> : w \in SeqsUpTo({" ", "\t", "\f"}, len),
                          c \in {<<>>, <<"#">>, <<"#", "b">>, <<"#", " ">>}}

\* Content lines before the blank line (P) and after it (R).
LinesBefore == {<<>>, <<"1", "\n">>, <<" ", "1", "\n">>, <<"\t", "1", "\n">>}

LinesAfter == {<<"1">>, <<" ", "1">>, <<"\t", "1">>, <<" ", " ", "1", "\n">>}

BlankSources(len) ==
    {p \o b \o r : p \in LinesBefore, b \in BlankLines(len), r \in LinesAfter}

SpecBlank == InitFrom(BlankSources(MaxBlank)) /\ [][Next]_vars

\* ------------------------------------- sources with errors before the end
\* Lines of integers, of which "00" is rejected after it was consumed.
EndSources(len) == SeqsUpTo({"0", "1", " ", "\n"}, len)

SpecEnd == InitFrom(EndSources(MaxLen)) /\ [][Next]_vars

\* --------------------------------------- sources with leading white space
\* A run of blanks before the content of a line, alone or after a line.
TabSources(len) ==
    {p \o w \o <<"1">> : p \in {<<>>, <<"1", "\n">>, <<"\t", "1", "\n">>},
                          w \in SeqsUpTo(BlankChars, len + 1)}

SpecTabs == InitFrom(TabSources(MaxBlank)) /\ [][Next]_vars

\* ------------------------------------- sources behind a byte-order mark
\* A byte-order mark and then names, integers, blanks and line breaks.
BomSources(len) == {<<"BOM">> \o s : s \in SeqsUpTo({"a", "1", " ", "\n", "\r"}, len)}

SpecBom == InitFrom(BomSources(MaxLen)) /\ [][Next]_vars

\* ------------------------------------------------- the reader on its own
\* Characters of one and two bytes and the two line-break characters.
ReaderSources(len) == SeqsUpTo({"a", "U2", "\r", "\n"}, len)

ReaderReturned(L) ==
    /\ rd' = L.rd
    /\ window' = L.window
    /\ cursor' = L.cursor
    /\ UNCHANGED <<source, at_begin_of_line, nesting, indent_stack, queue, out, probe, call,
                   scanner, handler>>

\* One call of CharReader::next.
ReaderNext == ReaderReturned(CharReader_next(Lexer))

\* One call of Lexer::next_char.
NextChar == ReaderReturned(next_char(Lexer))

NextReader == ReaderNext \/ NextChar

SpecReader == InitFrom(ReaderSources(MaxLen)) /\ [][NextReader]_vars

\* ------------------------------------------------------ rpc frame splitting
\* slice.windows(Len(pat)).enumerate().find(..).map(|(i, _)| i) over
\* data[from..]: the index, counted from `from`, of the first window equal
\* to pat, or -1 for None.
WindowsAt(data, from, pat) ==
    {i \in 0..(Len(data) - from - Len(pat)) :
         SubSeq(data, from + i + 1, from + i + Len(pat)) = pat}

find_window(data, from, pat) ==
    IF WindowsAt(data, from, pat) = {} THEN -1
    ELSE CHOOSE i \in WindowsAt(data, from, pat) : \A j \in WindowsAt(data, from, pat) : i <= j

\* The value of a run of ASCII digits.
RECURSIVE DigitsValue(_)
DigitsValue(ds) ==
    IF ds = <<>> THEN 0 ELSE 10 * DigitsValue(SubSeq(ds, 1, Len(ds) - 1)) + (ds[Len(ds)] - 48)

IsDigitRun(ds) == ds # <<>> /\ \A i \in 1..Len(ds) : ds[i] \in 48..57

\* std::str::from_utf8 and then str::parse::<usize>: a run of decimal
\* digits after an optional '+', or -1 for either Err.  (The runs of the
\* model stay far below usize::MAX.)
parse_usize(bytes) ==
    IF IsDigitRun(bytes) THEN DigitsValue(bytes)
    ELSE IF bytes # <<>> /\ bytes[1] = 43 /\ IsDigitRun(Tail(bytes)) THEN DigitsValue(Tail(bytes))
    ELSE -1

SplitFnResult(type, start, end) == [type |-> type, start |-> start, end |-> end]

\* split_fn from the parsed content length on.
split_content(data, start_index, delimiter_index, content_length) ==
    IF content_length < 0 THEN SplitFnResult("Err", 0, 0)
    ELSE IF Len(data) - (delimiter_index + Len(JSON_RPC_DELIMITER_BYTES)) < content_length
    THEN SplitFnResult("SearchingEnd", start_index, 0)
    ELSE SplitFnResult("Complete", start_index,
                       delimiter_index + Len(JSON_RPC_DELIMITER_BYTES) + content_length)

\* split_fn once the label is found at start_index: delimiter_index is
\* counted from start_index, and the code uses it as an index into data.
split_header(data, start_hint, start_index, delimiter_index) ==
    IF delimiter_index < 0 THEN SplitFnResult("SearchingEnd", start_index, 0)
    ELSE IF ~(start_index + Len(CONTENT_LENGTH_LABEL_BYTES) < delimiter_index)
    THEN SplitFnResult("panic", 0, 0)
    ELSE split_content(data, start_index, delimiter_index,
                       parse_usize(SubSeq(data, start_hint + Len(CONTENT_LENGTH_LABEL_BYTES) + 1,
                                          delimiter_index)))

split_label(data, start_hint, found) ==
    IF found < 0 THEN SplitFnResult("Searching", 0, 0)
    ELSE split_header(data, start_hint, found + start_hint,
                      find_window(data, found + start_hint, JSON_RPC_DELIMITER_BYTES))

\* split_fn(data, start_hint); data[start_hint..] panics past the end.
split_fn(data, start_hint) ==
    IF start_hint > Len(data) THEN SplitFnResult("panic", 0, 0)
    ELSE split_label(data, start_hint, find_window(data, start_hint, CONTENT_LENGTH_LABEL_BYTES))

\* A frame: the label, the decimal length of the body, the delimiter, the body.
Frame(body) ==
    CONTENT_LENGTH_LABEL_BYTES \o DecimalDigits(Len(body)) \o JSON_RPC_DELIMITER_BYTES \o body

Prefixes(s) == {SubSeq(s, 1, n) : n \in 0..Len(s)}

\* Bodies of the bytes '{' and '}', and one of ten bytes.
FrameBodies(len) == SeqsUpTo({123, 125}, len) \cup {<<123, 49, 49, 49, 49, 49, 49, 49, 49, 125>>}

\* Bytes before the label: none, or line breaks and letters.
Leading(len) == SeqsUpTo({10, 67}, len)

\* The buffers given to split_fn: leading bytes, then a frame or the
\* beginning of one, then up to one byte more.
SplitData(lead, len) ==
    {g \o f \o t : g \in Leading(lead),
                   f \in UNION {Prefixes(Frame(b)) : b \in FrameBodies(len)},
                   t \in {<<>>, <<67>>}}

\* One call of split_fn.
SplitFn ==
    /\ call = NoCall
    /\ \E data \in SplitData(MaxLead, MaxBody) :
           \E start_hint \in 0..Min(Len(data), MaxLead + 1) :
               call' = [NoCall EXCEPT !.fn = "split_fn", !.bytes = data, !.offset = start_hint,
                                      !.range = split_fn(data, start_hint)]
    /\ LexerUnchanged
    /\ UNCHANGED <<scanner, handler>>

NextSplit == SplitFn

SpecSplit == InitFrom({<<>>}) /\ [][NextSplit]_vars

\* ------------------------------------------------------------- the Scanner
\* The match on the result of split_fn in Scanner::next, after the buffer
\* has been extended and the BufReader's bytes consumed: S is the Scanner
\* with the extended payload_buffer.  payload_buffer[start..end] panics
\* when start > end or end is past the buffer.
Scanner_match(S, res) ==
    CASE res.type = "panic" -> [S EXCEPT !.pc = "panic"]
      [] res.type = "Complete" ->
           IF res.start > res.end \/ res.end > Len(S.payload_buffer)
           THEN [S EXCEPT !.pc = "panic"]
           ELSE [S EXCEPT !.pc = "idle",
                          !.delivered = Append(@, SubSeq(S.payload_buffer, res.start + 1, res.end))]
      [] res.type = "SearchingEnd" -> [S EXCEPT !.start_hint = res.start]
      [] OTHER -> S

\* One turn of the loop of Scanner::next: fill_buf has returned the first n
\* bytes the reader holds (none at the end of input), all of them are
\* appended to payload_buffer and consumed, and the result of split_fn is
\* matched.
Scanner_fill(S, n) ==
    Scanner_match([S EXCEPT !.payload_buffer = @ \o SubSeq(S.input, 1, n),
                            !.input = SubSeq(@, n + 1, Len(@)),
                            !.at_end = @ \/ n = 0],
                  split_fn(S.payload_buffer \o SubSeq(S.input, 1, n), S.start_hint))

\* Runs of up to `frames` frames whose bodies are empty or of len bytes.
RECURSIVE FrameRuns(_, _)
FrameRuns(frames, len) ==
    IF frames = 0 THEN {<<>>}
    ELSE {<<>>} \cup {Frame(b) \o r : b \in {<<>>} \cup (SeqsUpTo({123}, len) \ SeqsUpTo({123}, len - 1)),
                                     r \in FrameRuns(frames - 1, len)}

\* The byte streams behind the reader: a line break or nothing, a run of
\* frames, and the beginning of one more frame or nothing.
Streams(frames, len) ==
    {g \o r \o t : g \in {<<>>, <<10>>},
                   r \in FrameRuns(frames, len),
                   t \in {<<>>, SubSeq(Frame(<<>>), 1, 3), SubSeq(Frame(<<>>), 1, 17)}}

\* The caller's call of next(): a new payload_buffer and start_hint 0.
ScannerNext ==
    /\ scanner.pc = "idle"
    /\ scanner' = [scanner EXCEPT !.pc = "loop", !.payload_buffer = <<>>, !.start_hint = 0]
    /\ LexerUnchanged
    /\ UNCHANGED <<call, handler>>

\* One turn of the loop: the reader supplies any number of its bytes, at
\* least one while it has some.
ScannerLoop ==
    /\ scanner.pc = "loop"
    /\ \E n \in (IF scanner.input = <<>> THEN {0} ELSE 1..Len(scanner.input)) :
           scanner' = Scanner_fill(scanner, n)
    /\ LexerUnchanged
    /\ UNCHANGED <<call, handler>>

NextScanner == ScannerNext \/ ScannerLoop

SpecScanner == InitServer({<<>>}, Streams(MaxFrames, MaxBody)) /\ [][NextScanner]_vars

\* The reader and the caller keep going: a call of next() that can take a
\* turn of its loop takes it, and the caller calls next() again.
SpecScannerFair ==
    InitServer({<<>>}, Streams(MaxFrames, MaxBody)) /\ [][NextScanner]_vars /\ WF_vars(NextScanner)

\* ------------------------------------------------------ the RequestHandler
\* IncommingMessage: a Request has an id, a method and optional params (the
\* name of the Params variant, or "None"); a Notification has a method.
Methods == {"initialize", "shutdown", "textDocument/formatting", "initialized", "exit", "other"}

ParamsVariants == {"None", "InitializeParams", "InitializedParams", "DocumentFormattingParams"}

Request(id, method, params) ==
    [type |-> "Request", id |-> id, method |-> method, params |-> params]

Notification(method) == [type |-> "Notification", id |-> 0, method |-> method, params |-> "-"]

Messages(ids) ==
    {Request(id, method, params) : id \in ids, method \in Methods, params \in ParamsVariants}
        \cup {Notification(method) : method \in Methods}

\* Ok(ResponseAction(Response {id, result, error})), with the handler
\* method that built it ("-" for none).
ResponseAction(id, result, error, ran) ==
    [type |-> "Response", id |-> id, result |-> result, error |-> error, ran |-> ran]

\* The other outcomes: Ok(ExitAction), Ok(NoopAction), Err(..).
OtherAction(type) == [NoAction EXCEPT !.type = type]

\* [is_active, action]: the handler's flag after the call and its result.
Handled(is_active, action) == [is_active |-> is_active, action |-> action]

\* Mutant: the arm for a handler that was shut down comes after the arm
\* for "initialize".
handle_request_mut(is_active, request) ==
    IF request.type = "Request" /\ request.params = "InitializeParams"
       /\ request.method = "initialize"
    THEN Handled(is_active, ResponseAction(request.id, "InitializeResult", "None", "initialize"))
    ELSE IF request.type = "Request" /\ ~is_active
    THEN Handled(is_active, ResponseAction(request.id, "None", "InvalidRequest", "-"))
    ELSE IF request.type = "Request" /\ request.method = "shutdown"
    THEN Handled(FALSE, ResponseAction(request.id, "None", "None", "shutdown"))
    ELSE IF request.type = "Request" /\ request.params = "DocumentFormattingParams"
            /\ request.method = "textDocument/formatting"
    THEN Handled(is_active, ResponseAction(request.id, "None", "None", "formatting"))
    ELSE IF request.type = "Notification" /\ request.method = "initialized"
    THEN Handled(is_active, OtherAction("Noop"))
    ELSE IF request.type = "Notification" /\ request.method = "exit"
    THEN Handled(is_active, OtherAction("Exit"))
    ELSE Handled(is_active, OtherAction("Err"))

\* RequestHandler::handle_request: the arms of the match in their order.
handle_request(is_active, request) ==
    IF request.type = "Request" /\ ~is_active
    THEN Handled(is_active, ResponseAction(request.id, "None", "InvalidRequest", "-"))
    ELSE IF request.type = "Request" /\ request.params = "InitializeParams"
            /\ request.method = "initialize"
    THEN Handled(is_active, ResponseAction(request.id, "InitializeResult", "None", "initialize"))
    ELSE IF request.type = "Request" /\ request.method = "shutdown"
    THEN Handled(FALSE, ResponseAction(request.id, "None", "None", "shutdown"))
    ELSE IF request.type = "Request" /\ request.params = "DocumentFormattingParams"
            /\ request.method = "textDocument/formatting"
    THEN Handled(is_active, ResponseAction(request.id, "None", "None", "formatting"))
    ELSE IF request.type = "Notification" /\ request.method = "initialized"
    THEN Handled(is_active, OtherAction("Noop"))
    ELSE IF request.type = "Notification" /\ request.method = "exit"
    THEN Handled(is_active, OtherAction("Exit"))
    ELSE Handled(is_active, OtherAction("Err"))

\* The handler after main has given it the message.
Answered(request, H) ==
    [is_active |-> H.is_active, handled |-> handler.handled + 1,
     message |-> request, action |-> H.action]

\* One turn of main's loop on a decoded message: ExitAction ends the loop,
\* and an Err ends the process in a panic.
HandleRequest ==
    /\ handler.handled < MaxRequests
    /\ handler.action.type \notin {"Exit", "Err"}
    /\ \E request \in Messages(1..2) :
           handler' = Answered(request, handle_request(handler.is_active, request))
    /\ LexerUnchanged
    /\ UNCHANGED <<call, scanner>>

NextHandler == HandleRequest

SpecHandler == InitFrom({<<>>}) /\ [][NextHandler]_vars

\* ================================================================ claims
\* Helpers of the claims' formulas.
Yielded(kind) == {i \in 1..Len(out) : out[i].type = "tok" /\ out[i].kind = kind}

NoErrorYielded == \A i \in 1..Len(out) : out[i].type \in {"tok", "none"}

OnlyTokensBefore(n) == \A i \in 1..(n - 1) : out[i].type = "tok"

RECURSIVE ByteOffset(_, _)
ByteOffset(src, i) == IF i <= 1 THEN 0 ELSE ByteOffset(src, i - 1) + Utf8Len(src[i - 1])

\* The characters of src that lie within the bytes [s, e).
RECURSIVE SourceSlice(_, _, _, _)
SourceSlice(src, s, e, i) ==
    IF i > Len(src) THEN <<>>
    ELSE (IF s <= ByteOffset(src, i) /\ ByteOffset(src, i + 1) <= e THEN <<src[i]>> ELSE <<>>)
         \o SourceSlice(src, s, e, i + 1)

IsNotWhiteSpace(c) == c \notin {" ", "\t", "\f", "\n", "\r"}

\* Tokens whose text field is their source text.
SourceTextKinds == {"Name", "Or", "For", "Newline", "NonLogicalNewline"} \cup {o[2] : o \in Operators}

\* C1: pulling from a fresh Lexer reaches "no more tokens" or a LexicalError
\* after finitely many pulls: within 2 * Len(source) + 4 pulls, which is more
\* than one token per character, one Indent and one Dedent per line, the
\* synthetic Newline and the end of stream together.
C1_PullsTerminate ==
    Len(out) >= 2 * Len(source) + 4
        => \E i \in 1..(2 * Len(source) + 4) : out[i].type \in {"none", "err"}

\* C2: the span of every yielded token that has source text covers exactly
\* that text in the source, in UTF-8 byte offsets from the start of the
\* source; a first token at the start of the source has start 0.
C2_SpansCoverText ==
    \A i \in 1..Len(out) :
        (OnlyTokensBefore(i + 1) /\ out[i].kind \in SourceTextKinds /\ out[i].text # <<>>)
            => /\ SourceSlice(source, out[i].start, out[i].end, 1) = out[i].text
               /\ (i = 1 /\ IsNotWhiteSpace(source[1])) => out[i].start = 0

\* C3: for a source of plain tokens separated by single spaces and ended by
\* a line break, the slices at the yielded spans, concatenated in yield
\* order, are the source without its white space, and the spans are in
\* order and do not overlap.
C3_RoundTrip ==
    (Last.type = "none" /\ OnlyTokensBefore(Len(out)))
        => LET n == Len(out) - 1
               slices == [i \in 1..n |-> SourceSlice(source, out[i].start, out[i].end, 1)]
           IN /\ SelectSeq(Flatten(slices), IsNotWhiteSpace) = SelectSeq(source, IsNotWhiteSpace)
              /\ \A i \in 1..(n - 1) : out[i].end <= out[i + 1].start

\* C4: tokens and errors are yielded in document order: the starts of the
\* yielded tokens never decrease, and when a pull returns the first
\* LexicalError no token is still waiting in the queue.
C4_DocumentOrder ==
    /\ \A i \in 1..(Len(out) - 1) :
           OnlyTokensBefore(i + 2) => out[i].start <= out[i + 1].start
    /\ (Last.type = "err" /\ OnlyTokensBefore(Len(out))) => queue = <<>>

\* C5: when the stream ends with "no more tokens" and no error was yielded,
\* as many Dedent as Indent tokens were yielded and the indentation stack
\* holds only its base level.
C5_IndentationBalance ==
    (Last.type = "none" /\ NoErrorYielded)
        => /\ Cardinality(Yielded("Indent")) = Cardinality(Yielded("Dedent"))
           /\ indent_stack = <<Level(0, 0)>>

C5_Witness ==
    /\ Last.type = "none"
    /\ NoErrorYielded
    /\ Cardinality(Yielded("Indent")) >= 2

\* C6: once a pull has returned "no more tokens", every later pull returns
\* "no more tokens" too: no panic, no further token, no EndOfFile sentinel.
C6_EndIsIdempotent ==
    /\ \A i \in 1..(Len(out) - 1) : out[i].type = "none" => out[i + 1] = EndOfStream
    /\ \A i \in 1..Len(out) : out[i].kind # "EndOfFile"

C6_Witness ==
    \E i \in 1..Len(out) :
        /\ out[i].type = "none"
        /\ i + 2 <= Len(out)
        /\ Yielded("Dedent") # {}

\* C7: the indentation stack is never empty and its bottom element is the
\* zero level, also after the end-of-input flush.
C7_StackNeverEmpty ==
    /\ Len(indent_stack) >= 1
    /\ indent_stack[1] = Level(0, 0)

C7_Witness ==
    /\ probe.c = None
    /\ Yielded("Indent") # {}
    /\ Len(indent_stack) = 1
    /\ \E t \in 1..Len(queue) : queue[t].kind = "Dedent"

\* C8: compare_strict(a, b) is Less when a.tabs < b.tabs and a.spaces <=
\* b.spaces, Greater when a.tabs > b.tabs and a.spaces >= b.spaces, the
\* ordering of the space counts when the tab counts are equal, and a
\* TabError otherwise; a pull whose comparison is a TabError yields TabError.
C8_ClaimedOrdering(a, b) ==
    IF a.tabs < b.tabs /\ a.spaces <= b.spaces THEN "Less"
    ELSE IF a.tabs > b.tabs /\ a.spaces >= b.spaces THEN "Greater"
    ELSE IF a.tabs = b.tabs
         THEN (IF a.spaces < b.spaces THEN "Less"
               ELSE IF a.spaces > b.spaces THEN "Greater" ELSE "Equal")
         ELSE "TabError"

C8_CompareStrict ==
    probe.ord # "-"
        => /\ probe.ord = C8_ClaimedOrdering(probe.a, probe.b)
           /\ probe.ord = "TabError" => (Last.type = "err" /\ Last.kind = "TabError")

C8_Witness ==
    /\ probe.a = Level(1, 0)
    /\ probe.b = Level(0, 8)
    /\ Last.type = "err"
    /\ Last.kind = "TabError"

\* C9: a closing bracket met with the nesting counter at zero makes the pull
\* yield NestingError at the cursor, produces no token and leaves the counter
\* at zero; with a counter above zero it decrements the counter by one and
\* the pull yields the closing token.
C9_ClosingBracket ==
    probe.c \in Closers
        => IF probe.nesting = 0
           THEN /\ Last = Err("NestingError", probe.cursor)
                /\ nesting = 0
                /\ Len(queue) = probe.qlen
           ELSE /\ nesting = probe.nesting - 1
                /\ Last.type = "tok"
                /\ Last.kind = BracketToken(probe.c)
                /\ queue = <<>>

C9_Witness ==
    /\ probe.c \in Closers
    /\ probe.nesting = 0
    /\ Last.kind = "NestingError"
    /\ Yielded("Rpar") # {}

\* C10: end of input met with a nonzero nesting counter makes the pull yield
\* the Eof error; no Newline, no Dedent and no end of stream is produced.
C10_EofInsideBrackets ==
    (probe.c = None /\ probe.nesting > 0)
        => /\ Last = Err("Eof", probe.cursor)
           /\ queue = <<>>
           /\ nesting = probe.nesting

C10_Witness ==
    /\ probe.c = None
    /\ probe.nesting > 0
    /\ Last.kind = "Eof"
    /\ Yielded("Lpar") # {}

\* The source s with every \r\n written as \n.
RECURSIVE ToLf(_)
ToLf(s) ==
    IF s = <<>> THEN <<>>
    ELSE IF Len(s) >= 2 /\ s[1] = "\r" /\ s[2] = "\n" THEN <<"\n">> \o ToLf(Tail(Tail(s)))
    ELSE <<Head(s)>> \o ToLf(Tail(s))

\* What a caller that looks at token kinds sees of a sequence of results.
Kinds(rs) == [i \in 1..Len(rs) |-> <<rs[i].type, rs[i].kind>>]

\* C11: a source whose line breaks are written \r\n yields the same sequence
\* of token kinds (and of errors) as the same source written with \n, pull
\* by pull, wherever the line breaks are, also at the very start.
C11_CrlfSameKinds ==
    Kinds(out) = Kinds(lex_source_loop(Lexer_new(ToLf(source)), Len(out)))

\* The same comparison for the sources that do not begin with a line break.
C11_CrlfAfterFirstCharacter ==
    (source # <<>> /\ source[1] # "\r") => C11_CrlfSameKinds

\* A String token that is not triple-quoted, has no prefix and the given value.
IsStringToken(r, value) ==
    /\ r.type = "tok"
    /\ r.kind = "String"
    /\ r.text = <<"String">> \o value

\* The sources quote, backslash, one character, the same quote.
C12_EscapeSource ==
    /\ Len(source) = 4
    /\ source[1] \in Quotes
    /\ source[2] = "\\"
    /\ source[4] = source[1]

\* C12: in a string literal a backslash escapes the character after it: the
\* source quote-backslash-c-quote yields one String token whose value is the
\* backslash and c, once each, and the token ends the source (the next pull
\* yields the Newline of the end of input), also when c is the quote.
C12_BackslashEscapes ==
    (C12_EscapeSource /\ Len(out) >= 1)
        => /\ IsStringToken(out[1], <<"\\", source[3]>>)
           /\ Len(out) >= 2 => (out[2].type = "tok" /\ out[2].kind = "Newline")

AllIn(s, chars) == \A i \in 1..Len(s) : s[i] \in chars

\* An opening quote and ordinary characters up to the end of input.
C13_UnterminatedSource ==
    /\ Len(source) >= 1
    /\ source[1] \in Quotes
    /\ AllIn(Tail(source), {"a"})

\* Three opening quotes and ordinary characters or line breaks up to the end of input.
C13_UnterminatedTripleSource ==
    /\ Len(source) >= 3
    /\ source[1] \in Quotes
    /\ source[2] = source[1]
    /\ source[3] = source[1]
    /\ AllIn(SubSeq(source, 4, Len(source)), {"a", "\n"})

\* C13: a string literal that reaches the end of input before its closing
\* quote makes the first pull yield an error: StringError when it is not
\* triple-quoted, Eof when it is.
C13_UnterminatedString ==
    Len(out) >= 1
        => /\ C13_UnterminatedSource => (out[1].type = "err" /\ out[1].kind = "StringError")
           /\ C13_UnterminatedTripleSource => (out[1].type = "err" /\ out[1].kind = "Eof")

\* The same for the literals that hold no character after the opening quotes.
C13_EmptyUnterminatedString ==
    (Len(out) >= 1 /\ AllIn(source, Quotes))
        => /\ C13_UnterminatedSource => (out[1].type = "err" /\ out[1].kind = "StringError")
           /\ C13_UnterminatedTripleSource => (out[1].type = "err" /\ out[1].kind = "Eof")

LineBreaks == {"\n", "\r"}

\* The first index at or after k that holds a line break, or Len(s) + 1.
RECURSIVE LineEnd(_, _)
LineEnd(s, k) == IF k > Len(s) \/ s[k] \in LineBreaks THEN k ELSE LineEnd(s, k + 1)

\* The first index of the physical line that holds k.
RECURSIVE LineStart(_, _)
LineStart(s, k) == IF k = 1 \/ s[k - 1] \in LineBreaks THEN k ELSE LineStart(s, k - 1)

\* The indices where a comment starts: a '#' with no '#' before it on its line.
CommentStarts(s) ==
    {k \in 1..Len(s) : s[k] = "#" /\ \A j \in LineStart(s, k)..(k - 1) : s[j] # "#"}

\* C14: when the stream has ended without an error, as many Comment tokens
\* were yielded as the source holds comments, whether a comment follows
\* other tokens on its line or is the first thing on its line.
C14_EveryCommentYielded ==
    (Last.type = "none" /\ NoErrorYielded)
        => Cardinality(Yielded("Comment")) = Cardinality(CommentStarts(source))

\* The sources with one '#' and no bracket.
C15_OneComment ==
    /\ Cardinality({k \in 1..Len(source) : source[k] = "#"}) = 1
    /\ \A k \in 1..Len(source) : source[k] # "("

HashAt == CHOOSE k \in 1..Len(source) : source[k] = "#"

\* C15: the text of a Comment token is the source from the '#', included,
\* up to the line terminator or the end of input, excluded; with nesting
\* zero the pull after the Comment yields a Newline.
C15_CommentText ==
    C15_OneComment
        => \A i \in Yielded("Comment") :
               /\ out[i].text = SubSeq(source, HashAt, LineEnd(source, HashAt) - 1)
               /\ i < Len(out) => (out[i + 1].type = "tok" /\ out[i + 1].kind = "Newline")

\* The same with the text starting after the '#'.
C15_CommentTextAfterHash ==
    C15_OneComment
        => \A i \in Yielded("Comment") :
               /\ out[i].text = SubSeq(source, HashAt + 1, LineEnd(source, HashAt) - 1)
               /\ i < Len(out) => (out[i + 1].type = "tok" /\ out[i + 1].kind = "Newline")

\* C16: no WhiteSpace token is yielded or queued, and a pull does not end on
\* a run of blanks: the character at its last entry into
\* populate_results_queue is not a blank.
C16_NoWhiteSpaceToken ==
    /\ \A i \in 1..Len(out) : out[i].kind # "WhiteSpace"
    /\ \A i \in 1..Len(queue) : queue[i].kind # "WhiteSpace"
    /\ probe.c \notin BlankChars

C16_Witness ==
    /\ Len(source) >= 3
    /\ source[1] = "1"
    /\ source[2] \in BlankChars
    /\ Len(out) = 2
    /\ out[1].kind = "Int"
    /\ out[2].kind = "Equal"

\* C17 as stated: to_char_index(text, offset) is the index of the character
\* that contains the byte at offset: of the character that starts at offset,
\* and of the character that offset lands strictly inside of.
C17_ContainingCharacter ==
    call.fn = "to_char_index"
        => \A i \in 1..Len(call.text) :
               /\ call.offset = ByteOffset(call.text, i) => call.idx = i - 1
               /\ (ByteOffset(call.text, i) < call.offset
                   /\ call.offset < ByteOffset(call.text, i + 1)) => call.idx = i - 1

\* C17, amended: when offset is the first byte of a character the result is
\* that character's index; when offset lands strictly inside a multi-byte
\* character the result is the index of the character after it (the number
\* of characters when it is the last one).
C17_FollowingCharacter ==
    call.fn = "to_char_index"
        => \A i \in 1..Len(call.text) :
               /\ call.offset = ByteOffset(call.text, i) => call.idx = i - 1
               /\ (ByteOffset(call.text, i) < call.offset
                   /\ call.offset < ByteOffset(call.text, i + 1)) => call.idx = i

C17_Witness ==
    /\ call.fn = "to_char_index"
    /\ call.text = <<"a", "U4", "b", "U4", "d">>
    /\ call.offset = 3
    /\ call.idx = 2

\* C18: to_char_index(text, offset) is the number of characters of text that
\* start at a byte offset strictly smaller than offset: the index of the
\* first character that starts at or after offset, and the number of
\* characters when there is none.
C18_CharactersBefore ==
    call.fn = "to_char_index"
        => /\ call.idx = Cardinality({i \in 1..Len(call.text) :
                                         ByteOffset(call.text, i) < call.offset})
           /\ \A i \in 1..Len(call.text) :
                  (/\ ByteOffset(call.text, i) >= call.offset
                   /\ \A j \in 1..(i - 1) : ByteOffset(call.text, j) < call.offset)
                      => call.idx = i - 1
           /\ call.offset >= text_len(call.text) => call.idx = Len(call.text)

C18_Witness ==
    /\ call.fn = "to_char_index"
    /\ call.text = <<"a", "U4", "b", "U4", "d">>
    /\ call.offset = 7
    /\ call.idx = 4

\* C19: a.cover(b) never panics and is the range from the smaller start to
\* the larger end, which contains a and b.
C19_CoverIsHull ==
    call.fn = "cover"
        => /\ call.range.type = "range"
           /\ call.range.start = Min(call.a.start, call.b.start)
           /\ call.range.end = Max(call.a.end, call.b.end)

\* What cover computes when it returns: the overlap of a and b.
C19_CoverIsIntersection ==
    call.fn = "cover"
        => IF call.a.end < call.b.start \/ call.b.end < call.a.start
           THEN call.range.type = "panic"
           ELSE /\ call.range.type = "range"
                /\ call.range.start = Max(call.a.start, call.b.start)
                /\ call.range.end = Min(call.a.end, call.b.end)

\* The source without its final line break.
Literal == IF source # <<>> /\ source[Len(source)] = "\n"
           THEN SubSeq(source, 1, Len(source) - 1) ELSE source

RECURSIVE Power(_, _)
Power(b, n) == IF n = 0 THEN 1 ELSE b * Power(b, n - 1)

\* The number that the digits ds denote in the base: the sum of digit * base^position.
RECURSIVE PositionalValue(_, _)
PositionalValue(ds, base) ==
    IF ds = <<>> THEN 0
    ELSE DigitValue(Head(ds)) * Power(base, Len(ds) - 1) + PositionalValue(Tail(ds), base)

IsNotUnderscore(c) == c # "_"

\* 0x/0X, 0o/0O or 0b/0B followed by one or more digits of the base.
IsRadixLiteral(l, base) ==
    /\ Len(l) >= 3
    /\ l[1] = "0"
    /\ l[2] \in (CASE base = 16 -> {"x", "X"} [] base = 8 -> {"o", "O"} [] base = 2 -> {"b", "B"})
    /\ \A i \in 3..Len(l) : l[i] \in Digits \cup {"f"} /\ DigitValue(l[i]) < base

\* Decimal digits with single underscores between digits.
IsDecimalRun(l) ==
    /\ l # <<>>
    /\ AllIn(l, Digits \cup {"_"})
    /\ l[1] # "_"
    /\ l[Len(l)] # "_"
    /\ \A i \in 1..(Len(l) - 1) : ~(l[i] = "_" /\ l[i + 1] = "_")

\* The first pull yields an Int of the given value and the literal is all it consumed.
YieldsOneInt(v) ==
    /\ out[1].type = "tok"
    /\ out[1].kind = "Int"
    /\ out[1].value = v
    /\ Len(out) >= 2 => (out[2].type = "tok" /\ out[2].kind = "Newline")

C20_RadixLiterals ==
    \A base \in {2, 8, 16} :
        IsRadixLiteral(Literal, base)
            => YieldsOneInt(PositionalValue(SubSeq(Literal, 3, Len(Literal)), base))

\* C20 as stated: a radix-prefixed literal yields one Int whose value is its
\* digits read in base 16, 8 or 2, and every decimal digit run with single
\* underscores between digits yields one Int whose value is the digits
\* without the underscores.
C20_IntValues ==
    Len(out) >= 1
        => /\ C20_RadixLiterals
           /\ IsDecimalRun(Literal)
                  => YieldsOneInt(PositionalValue(SelectSeq(Literal, IsNotUnderscore), 10))

\* C20, amended: the same, for the decimal runs that are the single digit 0
\* or do not start with 0.
C20_IntValuesNoLeadingZero ==
    Len(out) >= 1
        => /\ C20_RadixLiterals
           /\ (IsDecimalRun(Literal) /\ (Literal[1] # "0" \/ Len(Literal) = 1))
                  => YieldsOneInt(PositionalValue(SelectSeq(Literal, IsNotUnderscore), 10))

C20_Witness ==
    /\ Literal = <<"1", "2", "3", "_", "4", "5", "_", "6", "7", "_", "8", "9", "0">>
    /\ Len(out) >= 1
    /\ out[1].kind = "Int"
    /\ out[1].value = 1234567890

\* C21: encode_message returns "Content-Length: ", the decimal ASCII digits
\* of the byte length of the JSON body, "\r\n\r\n" and the body.
C21_EncodedHeader ==
    call.fn = "encode_message"
        => call.bytes = CONTENT_LENGTH_LABEL_BYTES \o DecimalDigits(Len(call.text))
                            \o JSON_RPC_DELIMITER_BYTES \o call.text

\* What the code returns: the label, the delimiter and the body are in
\* place, and between the label and the delimiter stand the bytes of the
\* length as a machine word.
C21_EncodedFrame ==
    call.fn = "encode_message"
        => /\ SubSeq(call.bytes, 1, 16) = CONTENT_LENGTH_LABEL_BYTES
           /\ SubSeq(call.bytes, 17 + call.offset, 20 + call.offset) = JSON_RPC_DELIMITER_BYTES
           /\ SubSeq(call.bytes, 21 + call.offset, Len(call.bytes)) = call.text
           /\ call.bytes[16 + call.offset] = Len(call.text)
           /\ \A i \in 17..(15 + call.offset) : call.bytes[i] = 0

IndentationResults == {"Indent", "Dedent", "TabError", "IndentationError", "TabsAfterSpaces"}

\* C22: a pull that meets a line terminator in populate_results_queue yields
\* Newline and sets at_begin_of_line when the nesting counter is zero, and
\* yields NonLogicalNewline and leaves the flag false when it is greater than
\* zero; a pull that starts with the counter above zero makes no indentation
\* comparison and, the queue being empty, yields no Indent, no Dedent and no
\* indentation error.
C22_LineTerminator ==
    [][ /\ probe'.c \in {"\n", "\r"}
            => IF probe'.nesting = 0
               THEN /\ Last'.type = "tok"
                    /\ Last'.kind = "Newline"
                    /\ at_begin_of_line'
               ELSE /\ Last'.type = "tok"
                    /\ Last'.kind = "NonLogicalNewline"
                    /\ ~at_begin_of_line'
                    /\ nesting' = nesting
        /\ nesting > 0
            => /\ ~at_begin_of_line
               /\ probe'.ord = "-"
               /\ queue = <<>> => Last'.kind \notin IndentationResults ]_vars

C22_Witness ==
    /\ probe.c = "\n"
    /\ probe.nesting > 0
    /\ Last.kind = "NonLogicalNewline"
    /\ Len(source) >= 3
    /\ source[3] = " "

\* The Dedent tokens among a pull's result r and the queue q it leaves.
DedentsIn(r, q) ==
    Cardinality({i \in 1..Len(q) : q[i].kind = "Dedent"}) + (IF r.kind = "Dedent" THEN 1 ELSE 0)

\* C23: a pull that handles the indentation of a line and pops levels
\* produces one Dedent per level popped; its last comparison is Equal, with
\* the new level on top of the stack, or Greater, and then the pull yields
\* IndentationError; IndentationError is yielded in no other case.
C23_DedentPerPop ==
    [][ /\ (at_begin_of_line /\ queue = <<>> /\ Len(indent_stack') < Len(indent_stack))
            => /\ DedentsIn(Last', queue') = Len(indent_stack) - Len(indent_stack')
               /\ probe'.ord \in {"Equal", "Greater", "TabError"}
               /\ probe'.ord = "Equal"
                      => (Last'.type = "tok" /\ Indentations_current(indent_stack') = probe'.a)
               /\ probe'.ord = "Greater"
                      => (Last'.type = "err" /\ Last'.kind = "IndentationError")
        /\ Last'.kind = "IndentationError"
            => (probe'.ord = "Greater" /\ Len(indent_stack') < Len(indent_stack)) ]_vars

C23_Witness ==
    /\ Last.kind = "IndentationError"
    /\ probe.a = Level(0, 1)
    /\ probe.b = Level(0, 0)
    /\ Len(indent_stack) = 1
    /\ DedentsIn(Last, queue) = 1

\* The tokens a pull produced: its result and what it left in the queue.
Produced(r, q) == <<r>> \o q

\* k NonLogicalNewline tokens, then one Indent, then one token that is
\* neither an Indent nor a Dedent.
IsIndentedLineStart(ts, k) ==
    /\ Len(ts) = k + 2
    /\ \A i \in 1..k : ts[i].kind = "NonLogicalNewline"
    /\ ts[k + 1].kind = "Indent"
    /\ ts[k + 2].kind \notin {"Indent", "Dedent", "NonLogicalNewline"}

\* C24: a pull that handles the indentation of a content line whose level
\* compares Greater than the stack top pushes exactly that level and
\* produces exactly one Indent, after the NonLogicalNewline tokens of the
\* blank lines before it and before the line's first token; when the level
\* compares Equal the stack is unchanged and no Indent or Dedent is produced.
C24_IndentOnce ==
    [][ (at_begin_of_line /\ queue = <<>> /\ Last'.type = "tok"
         /\ Len(indent_stack') >= Len(indent_stack))
            => /\ probe'.ord = "Greater"
                   => /\ indent_stack' = Append(indent_stack, probe'.a)
                      /\ \E k \in 0..Len(queue') :
                             IsIndentedLineStart(Produced(Last', queue'), k)
               /\ probe'.ord = "Equal"
                   => /\ indent_stack' = indent_stack
                      /\ \A i \in 1..Len(queue') + 1 :
                             Produced(Last', queue')[i].kind \notin {"Indent", "Dedent"} ]_vars

C24_Witness ==
    /\ Len(out) = 1
    /\ Last.kind = "NonLogicalNewline"
    /\ Len(queue) = 2
    /\ queue[1].kind = "Indent"
    /\ queue[2].kind = "Int"
    /\ indent_stack = <<Level(0, 0), Level(0, 1)>>

\* The start of the first line of s that holds no '1': its blank line.
RECURSIVE BlankLineStart(_, _)
BlankLineStart(s, i) ==
    IF \A j \in i..(LineEnd(s, i) - 1) : s[j] # "1" THEN i
    ELSE BlankLineStart(s, LineEnd(s, i) + 1)

\* s without its blank line.
WithoutBlankLine(s) ==
    SubSeq(s, 1, BlankLineStart(s, 1) - 1)
        \o SubSeq(s, LineEnd(s, BlankLineStart(s, 1)) + 1, Len(s))

\* ks is rs with one NonLogicalNewline inserted at position k.
IsWithNewlineAt(ks, rs, k) ==
    /\ Len(ks) = Len(rs) + 1
    /\ ks[k] = <<"tok", "NonLogicalNewline">>
    /\ \A i \in 1..(k - 1) : ks[i] = rs[i]
    /\ \A i \in (k + 1)..Len(ks) : ks[i] = rs[i - 1]

\* Whether the blank line of s holds a tab after a space.
RECURSIVE HasTabAfterSpace(_)
HasTabAfterSpace(l) ==
    /\ Len(l) >= 2
    /\ \/ (l[1] = " " /\ \E j \in 2..Len(l) : l[j] = "\t"
                      /\ \A i \in 2..j : l[i] \in {" ", "\t"})
       \/ HasTabAfterSpace(Tail(l))

BlankLine(s) == SubSeq(s, BlankLineStart(s, 1), LineEnd(s, BlankLineStart(s, 1)))

\* C25: a line of blanks and/or a comment at the start of a logical line
\* yields exactly one NonLogicalNewline and changes nothing else: when the
\* stream has ended, what was yielded is what the source without that line
\* yields, with one NonLogicalNewline inserted, whatever white space the
\* line holds.
C25_BlankLineIsOneNewline ==
    Last.type = "none"
        => \E k \in 1..Len(out) :
               IsWithNewlineAt(Kinds(out),
                               Kinds(lex_source_loop(Lexer_new(WithoutBlankLine(source)),
                                                     Len(out) - 1)), k)

\* The same for the blank lines that hold no tab after a space.
C25_WithoutTabAfterSpace ==
    (Last.type = "none" /\ ~HasTabAfterSpace(BlankLine(source)))
        => \E k \in 1..Len(out) :
               IsWithNewlineAt(Kinds(out),
                               Kinds(lex_source_loop(Lexer_new(WithoutBlankLine(source)),
                                                     Len(out) - 1)), k)


\* The tokens among the results rs.
TokensOf(rs) == SelectSeq(rs, LAMBDA r : r.type = "tok")

\* Whether the last token of ts exists and is no line terminator.
LastIsNoLineTerminator(ts) ==
    /\ ts # <<>>
    /\ ts[Len(ts)].kind \notin {"Newline", "NonLogicalNewline"}

\* ts is k NonLogicalNewline tokens of blank lines, then nl Newline tokens,
\* then n Dedent tokens, then the end of the stream.
IsEndOfInputTail(ts, k, nl, n) ==
    /\ Len(ts) = k + nl + n + 1
    /\ \A i \in 1..k : ts[i].kind = "NonLogicalNewline"
    /\ \A i \in (k + 1)..(k + nl) : ts[i].kind = "Newline"
    /\ \A i \in (k + nl + 1)..(k + nl + n) : ts[i].kind = "Dedent"
    /\ ts[Len(ts)].kind \in {"EndOfFile", "None"}

\* The first pull that reaches the end of input with nesting zero.
IsEndOfInputPull ==
    queue = <<>> /\ Last.type # "none" /\ probe'.c = None /\ probe'.nesting = 0

\* C26: the first pull that reaches the end of input with nesting zero
\* produces, after the NonLogicalNewline tokens of the blank lines it skipped
\* and in this order, one Newline if and only if the last token yielded
\* before was no line terminator, one Dedent for each stack level above the
\* base level, and the end of the stream.
C26_EndOfInputSequence ==
    [][ IsEndOfInputPull
            => \E k \in 0..Len(queue') :
                   IsEndOfInputTail(
                       Produced(Last', queue'), k,
                       IF k = 0 /\ LastIsNoLineTerminator(TokensOf(out)) THEN 1 ELSE 0,
                       Len(indent_stack) - 1) ]_vars

\* C26, amended: the Newline is produced if and only if the lexer is not
\* at the start of a logical line; as long as no error was yielded that is
\* the case exactly when the last token yielded was no line terminator.
\* The stack is left at its base level.
C26_EndOfInputSequenceByFlag ==
    [][ IsEndOfInputPull
            => /\ \E k \in 0..Len(queue') :
                      IsEndOfInputTail(
                          Produced(Last', queue'), k,
                          IF ~at_begin_of_line THEN 1 ELSE 0,
                          Len(indent_stack) - 1)
               /\ at_begin_of_line
                      => Produced(Last', queue')[1].kind # "Newline"
               /\ (\A i \in 1..Len(out) : out[i].type = "tok")
                      => (~at_begin_of_line <=> LastIsNoLineTerminator(TokensOf(out)))
               /\ indent_stack' = <<Level(0, 0)>> ]_vars

\* The indented line " 00": the error of "00", the Indent queued before it,
\* and at the end of input a Newline, a Dedent and the end of the stream.
C26_Witness ==
    /\ source = <<" ", "0", "0">>
    /\ Kinds(out) = << <<"err", "OtherError">>, <<"tok", "Indent">>, <<"tok", "Newline">>,
                       <<"tok", "Dedent">>, <<"none", "None">> >>


\* The positions from p on, within the leading white space that starts at
\* p, of a tab with a space before it and neither a form feed nor a line
\* break between the two.
TabsAfterSpacesFrom(s, p) ==
    {j \in p..Len(s) :
        /\ \A m \in p..j : s[m] \in {" ", "\t", "\f", "\n"}
        /\ s[j] = "\t"
        /\ \E i \in p..(j - 1) : /\ s[i] = " "
                                 /\ \A m \in i..(j - 1) : s[m] \in {" ", "\t"}}

Minimum(S) == CHOOSE x \in S : \A y \in S : x <= y

\* The position in the source of the character in window[0], the reader
\* having read r characters of which those in the window w are still to be
\* consumed.
ReadPosition(r, w) == r - Cardinality({i \in 1..3 : w[i] # None}) + 1

\* C27: a pull that scans leading white space yields TabsAfterSpaces when
\* the scan meets a tab after a space counted since the start of the line or
\* the last form feed, and leaves the reader at that tab; in every other case
\* it does not yield TabsAfterSpaces: tabs followed by spaces and a tab after
\* a form feed are accepted.
C27_TabsAfterSpaces ==
    [][ (at_begin_of_line /\ queue = <<>>)
            => IF TabsAfterSpacesFrom(source, ReadPosition(rd, window)) # {}
               THEN /\ Last'.type = "err"
                    /\ Last'.kind = "TabsAfterSpaces"
                    /\ ReadPosition(rd', window')
                           = Minimum(TabsAfterSpacesFrom(source, ReadPosition(rd, window)))
                    /\ window'[1] = "\t"
                    /\ indent_stack' = indent_stack
               ELSE Last'.kind # "TabsAfterSpaces" ]_vars

\* The line "\f \t1": the space after the form feed is counted and the tab
\* after it is rejected and still to be read.
C27_Witness ==
    /\ source = <<"\f", " ", "\t", "1">>
    /\ Len(out) = 1
    /\ Last.kind = "TabsAfterSpaces"
    /\ ReadPosition(rd, window) = 3
    /\ window[1] = "\t"


NameKinds == {"Name", "Or", "For"}

\* The token a pull that started with an empty queue queued last.
Scanned(r, q) == IF q = <<>> THEN r ELSE q[Len(q)]

\* The text t is the run of identifier characters of s that ends before
\* position p, and no identifier character follows it.
IsIdentifierRunBefore(s, t, p) ==
    /\ t # <<>>
    /\ p - Len(t) >= 1
    /\ t = SubSeq(s, p - Len(t), p - 1)
    /\ p <= Len(s) => ~is_identifier_or_keyword_continuation(s[p])

\* C28: a pull that scans an identifier queues one Name or keyword token
\* whose text is the whole run of identifier characters up to where the
\* reader then stands, also at the end of input and never empty; a source
\* that is one identifier yields that name, then Newline, then the end of
\* the stream.
C28_IdentifierRun ==
    [][ /\ (queue = <<>> /\ Scanned(Last', queue').type = "tok"
                         /\ Scanned(Last', queue').kind \in NameKinds)
            => IsIdentifierRunBefore(source, Scanned(Last', queue').text,
                                     ReadPosition(rd', window'))
        /\ (Len(out') = 3 /\ AllIn(source, Letters) /\ source # <<>>)
            => /\ Kinds(out') = << <<"tok", out'[1].kind>>, <<"tok", "Newline">>,
                                  <<"none", "None">> >>
               /\ out'[1].kind \in NameKinds
               /\ out'[1].text = source ]_vars

\* The same for the identifiers with a character after them that is no
\* identifier character.
C28_IdentifierRunBeforeEnd ==
    [][ (queue = <<>> /\ Scanned(Last', queue').type = "tok"
                      /\ Scanned(Last', queue').kind \in NameKinds
                      /\ \E m \in ReadPosition(rd', window')..Len(source) :
                             ~is_identifier_or_keyword_continuation(source[m]))
            => IsIdentifierRunBefore(source, Scanned(Last', queue').text,
                                     ReadPosition(rd', window')) ]_vars


\* The first n characters of s are identifier-start characters that form
\* no string prefix, and a quote character follows them.
IsInvalidPrefix(s, n) ==
    /\ Len(s) > n
    /\ \A i \in 1..n : is_identifier_or_keywords_start(s[i])
    /\ s[n + 1] \in Quotes
    /\ StringKind_try_from(SubSeq(s, 1, n)) = None

\* What a result is without its span.
Unspanned(r) == <<r.type, r.kind, r.text>>

\* C29: one or two identifier-start characters that form no string prefix,
\* followed by a quote character, are no error: the first yield is the Name
\* or keyword token of those characters and the second is what the quoted
\* text yields on its own, an un-prefixed String token when it is well formed.
C29_InvalidPrefixIsIdentifier ==
    \A n \in {1, 2} :
        (IsInvalidPrefix(source, n) /\ Len(out) >= 1)
            => /\ Unspanned(out[1]) \in {<<"tok", k, SubSeq(source, 1, n)>> : k \in NameKinds}
               /\ Len(out) >= 2
                      => Unspanned(out[2])
                             = Unspanned(Lexer_next(Lexer_new(SubSeq(source, n + 1, Len(source)))).res)


\* C30: scanning a string literal returns: no pull stays in the content loop
\* of lex_string for ever, and 'a' followed by a line break yields the
\* String with value a and then Newline.
C30_StringProgress ==
    /\ \A i \in 1..Len(out) : out[i].type # "hang"
    /\ (source \in {<<q, "a", q, "\n">> : q \in Quotes} /\ Len(out) >= 2)
           => /\ IsStringToken(out[1], <<"a">>)
              /\ out[2].type = "tok"
              /\ out[2].kind = "Newline"

\* The content loop is left whenever the source holds nothing but one
\* quote character and backslashes.
C30_ProgressWithoutOrdinaryCharacter ==
    (\E q \in Quotes : AllIn(source, {q, "\\"}))
        => \A i \in 1..Len(out) : out[i].type # "hang"


\* The source is a quote that opens no triple-quoted literal, ordinary
\* characters, and then a line break at position j.
IsLineBreakInString(s, j) ==
    /\ 2 <= j /\ j <= Len(s)
    /\ s[1] \in Quotes
    /\ ~(Len(s) >= 3 /\ s[2] = s[1] /\ s[3] = s[1])
    /\ s[j] = "\n"
    /\ \A i \in 2..(j - 1) : s[i] = "a"

\* The source is three quotes and then ordinary characters and line breaks,
\* at least one of them a line break.
IsLineBreakInTripleString(s) ==
    /\ Len(s) >= 4
    /\ s[1] \in Quotes /\ s[2] = s[1] /\ s[3] = s[1]
    /\ AllIn(SubSeq(s, 4, Len(s)), {"a", "\n"})
    /\ \E i \in 4..Len(s) : s[i] = "\n"

\* C31: an unescaped line break inside a string that is not triple-quoted
\* makes the pull yield StringError located at the line break; inside a
\* triple-quoted string scanning continues past it, here to the end of
\* input, where the pull yields Eof.
C31_LineBreakInString ==
    Len(out) >= 1
        => /\ \A j \in 2..Len(source) :
                  IsLineBreakInString(source, j)
                      => /\ out[1].type = "err"
                         /\ out[1].kind = "StringError"
                         /\ out[1].start = j - 1
           /\ IsLineBreakInTripleString(source)
                  => (out[1].type = "err" /\ out[1].kind = "Eof")

\* What the code does when the line break directly follows the opening
\* quote: the pull yields OtherError.
C31_LineBreakAfterQuote ==
    (Len(out) >= 1 /\ IsLineBreakInString(source, 2))
        => (out[1].type = "err" /\ out[1].kind = "OtherError")


\* The base of the literal l and where its digit run starts.
BaseOf(l) ==
    IF Len(l) >= 2 /\ l[1] = "0" /\ l[2] \in {"x", "X"} THEN 16
    ELSE IF Len(l) >= 2 /\ l[1] = "0" /\ l[2] \in {"o", "O"} THEN 8
    ELSE IF Len(l) >= 2 /\ l[1] = "0" /\ l[2] \in {"b", "B"} THEN 2
    ELSE 10

RunStart(l) == IF BaseOf(l) = 10 THEN 1 ELSE 3

IsDigitOf(c, base) == DigitValue(c) < base

\* Position i of l holds an underscore of the digit run of l.
IsUnderscoreOfRun(l, i) ==
    /\ l[i] = "_"
    /\ \A k \in RunStart(l)..i : l[k] = "_" \/ IsDigitOf(l[k], BaseOf(l))

\* The underscore at i has no digit of the base after it: it ends the run,
\* or is doubled, or stands before a non-digit.
IsBeforeNoDigit(l, i) == i = Len(l) \/ ~IsDigitOf(l[i + 1], BaseOf(l))

\* The literals that are scanned as numbers: those that start with a digit.
IsNumberStart(l) == l # <<>> /\ l[1] \in Digits

\* C32 as stated: an underscore at the very start of a digit run (directly
\* after a 0x/0o/0b prefix), at its end, doubled or before a non-digit makes
\* the pull yield OtherError and no number token.
C32_UnderscoreBetweenDigits ==
    (Len(out) >= 1 /\ IsNumberStart(Literal))
        => \A i \in RunStart(Literal)..Len(Literal) :
               (IsUnderscoreOfRun(Literal, i)
                    /\ (i = RunStart(Literal) \/ IsBeforeNoDigit(Literal, i)))
                   => (out[1].type = "err" /\ out[1].kind = "OtherError")

\* C32, amended: an underscore at the end of the run, doubled or before a
\* non-digit makes the pull yield OtherError and no number token; an
\* underscore directly after a 0x/0o/0b prefix and before a digit is
\* accepted, and the pull yields the Int.
C32_UnderscoreBeforeDigit ==
    (Len(out) >= 1 /\ IsNumberStart(Literal))
        => /\ \A i \in RunStart(Literal)..Len(Literal) :
                  (IsUnderscoreOfRun(Literal, i) /\ IsBeforeNoDigit(Literal, i))
                      => (out[1].type = "err" /\ out[1].kind = "OtherError")
           /\ (/\ BaseOf(Literal) # 10
               /\ Len(Literal) >= 3
               /\ Literal[3] = "_"
               /\ \A i \in 3..Len(Literal) :
                      IsUnderscoreOfRun(Literal, i) => ~IsBeforeNoDigit(Literal, i))
                  => (out[1].type = "tok" /\ out[1].kind = "Int")

\* 0x1__: the doubled underscore at the end of the run is rejected.
C32_Witness ==
    /\ Literal = <<"0", "x", "1", "_", "_">>
    /\ Len(out) >= 1
    /\ out[1].type = "err"
    /\ out[1].kind = "OtherError"


\* What the source without its byte-order mark yields in as many pulls.
WithoutByteOrderMark == lex_source_loop(Lexer_new(Tail(source)), Len(out))

\* C33: a leading byte-order mark is transparent: the source yields the
\* same token kinds and the same error kinds, pull for pull, as the source
\* without the mark, also when a line break follows the mark.
C33_ByteOrderMarkTransparent ==
    source[1] = "BOM" => Kinds(out) = Kinds(WithoutByteOrderMark)

\* The same for the sources in which no "\r\n" directly follows the mark.
C33_TransparentBeforeOtherThanCrlf ==
    (source[1] = "BOM" /\ ~(Len(source) >= 3 /\ source[2] = "\r" /\ source[3] = "\n"))
        => Kinds(out) = Kinds(WithoutByteOrderMark)


\* The cursor is the UTF-8 length of the characters pulled from the source
\* so far, which is at most the byte length of the source.
CursorIsBytesPulled ==
    /\ rd <= Len(source)
    /\ cursor = ByteOffset(source, rd + 1)
    /\ cursor <= ByteOffset(source, Len(source) + 1)

\* C34: the reader cursor always equals the UTF-8 length of the characters
\* pulled from the source so far and never exceeds the byte length of the
\* source; no advance decreases it, and once the source is exhausted an
\* advance shifts None into the window and leaves the cursor unchanged.
C34_CursorMonotone ==
    /\ []CursorIsBytesPulled
    /\ [][ /\ cursor' >= cursor
           /\ rd = Len(source)
                  => /\ cursor' = cursor
                     /\ window' # window => window'[3] = None ]_vars

\* A source that ends in a two-byte character, exhausted, with that
\* character at the head of the window.
C34_Witness ==
    /\ Len(source) = 3
    /\ source[3] = "U2"
    /\ rd = 3
    /\ window = <<"U2", None, None>>
    /\ cursor = ByteOffset(source, 4)
    /\ cursor > 3

\* ---------------------------------------------------------------- C35
IsWellFormed(t) ==
    /\ t.type # "panic"
    /\ t.type = "tok" => 0 <= t.start /\ t.start <= t.end

\* C35: no pull panics: every range the lexer has built, yielded or still
\* queued, has 0 <= start <= end, so neither the assertion of TextRange::new
\* nor the subtraction cursor - spaces - tabs of the Indent start has failed.
C35_NoPanic ==
    /\ \A i \in 1..Len(out) : IsWellFormed(out[i])
    /\ \A i \in 1..Len(queue) : IsWellFormed(queue[i])

\* An Indent has been yielded for a line whose indentation holds a form feed.
C35_Witness ==
    /\ \E n \in 1..Len(source) : source[n] = "\f"
    /\ \E i \in 1..Len(out) : /\ out[i].kind = "Indent"
                              /\ out[i].start < out[i].end
    /\ out[Len(out)].type = "none"

\* ---------------------------------------------------------------- C36
\* The number of tokens of the kind among the results ts.
RECURSIVE ProducedOf(_, _)
ProducedOf(ts, kind) ==
    IF ts = <<>> THEN 0
    ELSE (IF Head(ts).type = "tok" /\ Head(ts).kind = kind THEN 1 ELSE 0)
         + ProducedOf(Tail(ts), kind)

\* C36: between pulls, the Indents produced so far (yielded or queued) minus
\* the Dedents produced so far are the depth of the indentation stack minus
\* one, so there are never more Dedents than Indents; this holds after a
\* TabError or an IndentationError as well.
C36_IndentsBalanceDedents ==
    /\ ProducedOf(out \o queue, "Indent") - ProducedOf(out \o queue, "Dedent")
           = Len(indent_stack) - 1
    /\ ProducedOf(out \o queue, "Dedent") <= ProducedOf(out \o queue, "Indent")

\* An IndentationError has been yielded after the loop popped a level and
\* queued its Dedent.
C36_Witness ==
    /\ \E i \in 1..Len(out) : out[i].type = "err" /\ out[i].kind = "IndentationError"
    /\ ProducedOf(out \o queue, "Dedent") = 1
    /\ ProducedOf(out \o queue, "Indent") = 1
    /\ Len(indent_stack) = 1

\* ---------------------------------------------------------------- C39
\* The index of the first label of data at or after the hint, or -1.
LabelFrom(data, hint) ==
    IF find_window(data, hint, CONTENT_LENGTH_LABEL_BYTES) < 0 THEN -1
    ELSE hint + find_window(data, hint, CONTENT_LENGTH_LABEL_BYTES)

\* From index k on, data holds the label, the decimal digits of n, the
\* delimiter and at least n bytes more.
HoldsFrameAt(data, k, n) ==
    /\ Len(data) >= k + Len(Frame(<<>>)) - 1 + Len(DecimalDigits(n)) + n
    /\ SubSeq(data, k + 1, k + Len(Frame(<<>>)) - 1 + Len(DecimalDigits(n)))
           = CONTENT_LENGTH_LABEL_BYTES \o DecimalDigits(n) \o JSON_RPC_DELIMITER_BYTES

FrameEnd(k, n) == k + Len(Frame(<<>>)) - 1 + Len(DecimalDigits(n)) + n

\* What split_fn is to return for data and a hint at or before the label.
IsFramedAs(data, hint, res) ==
    /\ res.type # "panic"
    /\ LabelFrom(data, hint) < 0 => res.type = "Searching"
    /\ LabelFrom(data, hint) >= 0 =>
           \/ \E n \in 0..Len(data) :
                  /\ HoldsFrameAt(data, LabelFrom(data, hint), n)
                  /\ res = SplitFnResult("Complete", LabelFrom(data, hint),
                                         FrameEnd(LabelFrom(data, hint), n))
           \/ /\ \A n \in 0..Len(data) : ~HoldsFrameAt(data, LabelFrom(data, hint), n)
              /\ res = SplitFnResult("SearchingEnd", LabelFrom(data, hint), 0)

\* C39: split_fn frames a message wherever it sits in the buffer: Complete
\* with the index of the label and the index after the body, SearchingEnd
\* with the index of the label while the delimiter or part of the body is
\* missing, Searching without a label, and no panic.
C39_FramesAnywhere ==
    call.fn = "split_fn" => IsFramedAs(call.bytes, call.offset, call.range)

\* The same for a label at index 0 of the buffer.
C39_FramesAtIndexZero ==
    (call.fn = "split_fn" /\ LabelFrom(call.bytes, call.offset) <= 0)
        => IsFramedAs(call.bytes, call.offset, call.range)

\* ---------------------------------------------------------------- C37
\* The complete frames of a byte stream, in stream order.
RECURSIVE FramesIn(_)
FrameAt(bytes, k, n) ==
    <<SubSeq(bytes, k + 1, FrameEnd(k, n))>>
        \o FramesIn(SubSeq(bytes, FrameEnd(k, n) + 1, Len(bytes)))

FramesIn(bytes) ==
    IF LabelFrom(bytes, 0) < 0 THEN <<>>
    ELSE IF \A n \in 0..Len(bytes) : ~HoldsFrameAt(bytes, LabelFrom(bytes, 0), n) THEN <<>>
    ELSE FrameAt(bytes, LabelFrom(bytes, 0),
                 CHOOSE n \in 0..Len(bytes) : HoldsFrameAt(bytes, LabelFrom(bytes, 0), n))

IsPrefixOf(p, s) == Len(p) <= Len(s) /\ SubSeq(s, 1, Len(p)) = p

\* Every complete frame once and in order, nothing after a returned frame
\* lost, and all of them returned by the time the reader is at its end.
DeliversFrames ==
    /\ scanner.pc # "panic"
    /\ IsPrefixOf(scanner.delivered, FramesIn(scanner.stream))
    /\ scanner.pc = "idle"
           => scanner.delivered \o FramesIn(scanner.input) = FramesIn(scanner.stream)
    /\ scanner.at_end => scanner.delivered = FramesIn(scanner.stream)

\* C37: the Scanner delivers every complete frame of the byte stream exactly
\* once and in stream order, however the reader chunks the bytes; bytes that
\* follow a complete frame in the same buffer fill are not lost.
C37_DeliversEveryFrame == DeliversFrames

\* The same for a stream that is one frame and nothing else.
C37_DeliversSingleFrame ==
    scanner.stream \in {Frame(b) : b \in SeqsUpTo({123}, MaxBody)} => DeliversFrames

\* The same without the panic of split_fn: nothing stands before a label.
C37_DeliversWithoutLeadingBytes ==
    (scanner.stream # <<>> /\ scanner.stream[1] = 10) \/ DeliversFrames

\* ---------------------------------------------------------------- C40
\* C40: when the reader is at the end of input (fill_buf has returned an
\* empty buffer) and no complete frame is buffered, Scanner::next eventually
\* returns None.
C40_EndOfInputReturnsNone ==
    (scanner.at_end /\ scanner.pc = "loop") ~> (scanner.pc = "none")

\* Once at the end of input, the call of next() stays in its loop.
C40_EndOfInputLoops ==
    [][(scanner.at_end /\ scanner.pc = "loop") => (scanner'.at_end /\ scanner'.pc = "loop")]_vars

\* ---------------------------------------------------------------- C38
\* The step is one call of handle_request.
IsHandling == handler'.handled = handler.handled + 1

ShutDownResponse(id) == ResponseAction(id, "None", "InvalidRequest", "-")

\* C38: is_active starts true, becomes false when a "shutdown" Request is
\* handled and never becomes true again; from then on every Request is
\* answered with a Response of its own id, no result and the error
\* InvalidRequest, and no handler method runs.
C38_ShutdownLifecycle ==
    /\ [](handler.handled = 0 => handler.is_active)
    /\ [][ /\ ~handler.is_active => ~handler'.is_active
           /\ (IsHandling /\ handler'.message.type = "Request"
                   /\ handler'.message.method = "shutdown") => ~handler'.is_active
           /\ (IsHandling /\ ~handler.is_active /\ handler'.message.type = "Request")
                  => handler'.action = ShutDownResponse(handler'.message.id) ]_vars

\* After a shutdown, an "initialize" Request with its params has been
\* answered with InvalidRequest.
C38_Witness ==
    /\ handler.handled = 3
    /\ ~handler.is_active
    /\ handler.message = Request(2, "initialize", "InitializeParams")
    /\ handler.action = ShutDownResponse(2)

====
